---- MODULE Spec2Model ----
(***************************************************************************)
(* State-machine model of the VIFA-Pro forensic pipeline                   *)
(* (src/vifa_pro/forensik_video/main.py): temporal analysis (tahap 2),     *)
(* evidence synthesis (tahap 3), localization and the Forensic Evidence    *)
(* Reliability Matrix (tahap 4).                                           *)
(*                                                                         *)
(* Numbers.  Python floats are modelled by exact scaled integers:          *)
(*   SSIM values and SSIM drops     hundredths        (0.80  -> 80)        *)
(*   optical-flow magnitude         tenths            (1.0   -> 10)        *)
(*   optical-flow z-score metric    hundredths        (round(z, 2))        *)
(*   sift_inlier_ratio metric       thousandths       (round(r, 3))        *)
(*   timestamps and durations       milliseconds                           *)
(*   false-positive risk            a fraction [num, den] of hundredths    *)
(*   event severity                 ten-thousandths   (1.0 -> 10000)       *)
(*   per-frame technical severity   1/SevUnit         (1.0 -> SevUnit)     *)
(* Results of the image collaborators (SSIM, optical flow, SIFT/RANSAC,    *)
(* ELA) are inputs: they are drawn in Init into env and never change.      *)
(***************************************************************************)
EXTENDS Integers, Sequences, FiniteSets, TLC

VARIABLES
    frames,                   \* result.frames: sequence of FrameInfo records
    env,                      \* per position: what the image collaborators return
    baseline,                 \* baseline_result: [given, hashes]
    metadata,                 \* result.metadata['Video Stream']: [bitrate, codec]
    fps,                      \* the --fps argument
    pc,                       \* which stage of __main__ runs next
    confidence_distribution,  \* result.confidence_distribution
    scan_pos,                 \* localization scan: position of the next frame
    event,                    \* localization scan: the open event, <<>> when None
    locs,                     \* localization scan: the events closed so far
    localizations,            \* result.localizations
    summary,                  \* result.summary and result.localization_details
    ferm,                     \* result.forensic_evidence_matrix
    ferm_again,               \* the matrix returned by a repeated call
    CONFIG,                   \* the module-level CONFIG dict (thresholds, KMEANS_CLUSTERS)
    pending,                  \* the videos __main__ has still to pass to tahap 1
    clusters                  \* per video passed to tahap 1: its actual_n_clusters

vars == <<frames, env, baseline, metadata, fps, pc, confidence_distribution,
          scan_pos, event, locs, localizations, summary, ferm, ferm_again, CONFIG,
          pending, clusters>>

(***************************************************************************)
(* Values                                                                  *)
(***************************************************************************)
None == -1

NoHash == ""

Unset == "unset"

N_A == "N/A"

RENDAH == "RENDAH"

SEDANG == "SEDANG"

TINGGI == "TINGGI"

SANGAT_TINGGI == "SANGAT TINGGI"

Tiers == {N_A, RENDAH, SEDANG, TINGGI, SANGAT_TINGGI}

ORIGINAL == "original"

DUPLICATION == "anomaly_duplication"

INSERTION == "anomaly_insertion"

DISCONTINUITY == "anomaly_discontinuity"

R_BASELINE == "Frame tidak ada di baseline"

R_FLOW == "Lonjakan Aliran Optik"

R_SSIM_DROP == "Penurunan Drastis SSIM"

R_SSIM_LOW == "SSIM Sangat Rendah"

R_SCENE == "Perubahan Adegan (dari K-Means)"

R_ELA == "Anomali Kompresi (ELA)"

R_DUP(idx1) == "Duplikasi dari frame " \o ToString(idx1)

\* the defaults of CONFIG
KMEANS_CLUSTERS == 3

SSIM_DISCONTINUITY_DROP == 30

OPTICAL_FLOW_Z_THRESH == 5

DUPLICATION_SSIM_CONFIRM == 80

SIFT_MIN_MATCH_COUNT == 10

DefaultConfig ==
    [KMEANS_CLUSTERS |-> KMEANS_CLUSTERS,
     SSIM_DISCONTINUITY_DROP |-> SSIM_DISCONTINUITY_DROP,
     OPTICAL_FLOW_Z_THRESH |-> OPTICAL_FLOW_Z_THRESH,
     DUPLICATION_SSIM_CONFIRM |-> DUPLICATION_SSIM_CONFIRM,
     SIFT_MIN_MATCH_COUNT |-> SIFT_MIN_MATCH_COUNT]

(***************************************************************************)
(* Helpers                                                                 *)
(***************************************************************************)
Abs(x) == IF x < 0 THEN -x ELSE x

Min(a, b) == IF a < b THEN a ELSE b

Max(a, b) == IF a > b THEN a ELSE b

Range(s) == {s[i] : i \in DOMAIN s}

EmptyMap == [k \in {} |-> 0]

\* d[k] = v on a dict
Put(d, k, v) == [x \in (DOMAIN d) \cup {k} |-> IF x = k THEN v ELSE d[x]]

\* d1 = d2 where the code has d1.update(d2)
UpdateReplacing(d1, d2) == d2

\* d1.update(d2)
Update(d1, d2) == [x \in (DOMAIN d1) \cup (DOMAIN d2) |-> IF x \in DOMAIN d2 THEN d2[x] ELSE d1[x]]

\* sum(s), added up by halves
RECURSIVE SumSeq(_)
SumSeq(s) ==
    IF Len(s) = 0 THEN 0
    ELSE IF Len(s) = 1 THEN s[1]
    ELSE SumSeq(SubSeq(s, 1, Len(s) \div 2))
         + SumSeq(SubSeq(s, Len(s) \div 2 + 1, Len(s)))

\* the sum of d over keys, added up by halves: the keys whose value is at
\* most the middle of the least and the greatest value, then the others
RECURSIVE SumBetween(_, _)
SumBetween(d, keys) ==
    IF keys = {} THEN 0
    ELSE LET values == {d[k] : k \in keys}
             lo == CHOOSE v \in values : \A w \in values : v <= w
             hi == CHOOSE v \in values : \A w \in values : w <= v
             mid == (lo + hi) \div 2
         IN IF lo = hi THEN lo * Cardinality(keys)
            ELSE SumBetween(d, {k \in keys : d[k] <= mid})
                 + SumBetween(d, {k \in keys : d[k] > mid})

\* sum(d.values())
SumMap(d) == SumBetween(d, DOMAIN d)

\* [x for x in s if Test(x)]
RECURSIVE SelectIdx(_, _, _)
SelectIdx(n, keep, p) ==
    IF p > n THEN <<>>
    ELSE IF p = n THEN (IF p \in keep THEN <<p>> ELSE <<>>)
    ELSE SelectIdx((p + n) \div 2, keep, p) \o SelectIdx(n, keep, (p + n) \div 2 + 1)

\* round(num / den) for den > 0, halves away from zero
RoundDiv(num, den) ==
    IF num >= 0 THEN (2 * num + den) \div (2 * den)
    ELSE -((2 * (-num) + den) \div (2 * den))

\* the k-th smallest element of a non-empty sequence of integers
KthSmallest(s, k) ==
    CHOOSE v \in Range(s) :
        /\ Cardinality({i \in DOMAIN s : s[i] < v}) < k
        /\ Cardinality({i \in DOMAIN s : s[i] <= v}) >= k

\* twice np.median(s)
Median2(s) ==
    LET n == Len(s)
    IN IF n % 2 = 1 THEN 2 * KthSmallest(s, (n + 1) \div 2)
       ELSE KthSmallest(s, n \div 2) + KthSmallest(s, n \div 2 + 1)

\* four times scipy.stats.median_abs_deviation(s)
Mad4(s) == LET m2 == Median2(s)
           IN Median2([i \in DOMAIN s |-> Abs(2 * s[i] - m2)])

IsAnomaly(f) == f.type \in {DUPLICATION, INSERTION, DISCONTINUITY}

conf_hierarchy(c) ==
    CASE c = SANGAT_TINGGI -> 4
      [] c = TINGGI -> 3
      [] c = SEDANG -> 2
      [] c = RENDAH -> 1
      [] OTHER -> 0

(***************************************************************************)
(* Data structures                                                         *)
(***************************************************************************)
Evidence ==
    [reasons |-> <<>>, reasons_is_str |-> FALSE, metrics |-> EmptyMap,
     confidence |-> N_A, ela_path |-> FALSE, sift_path |-> FALSE,
     explanations |-> EmptyMap]

\* the FrameInfo built by run_tahap_1_pra_pemrosesan for extracted image idx
FrameInfo(idx, h, cl, rate) ==
    [index |-> idx, timestamp |-> (idx * 1000) \div rate, hash |-> h,
     type |-> ORIGINAL, ssim_to_prev |-> None, optical_flow_mag |-> None,
     color_cluster |-> cl, evidence_obj |-> Evidence]

(***************************************************************************)
(* TAHAP 2: temporal features and the baseline comparison                  *)
(***************************************************************************)
TemporalFeatures(fr, e) ==
    [p \in DOMAIN fr |->
        IF ~e[p].gray_ok THEN fr[p]
        ELSE IF p > 1 /\ e[p - 1].gray_ok
             THEN [fr[p] EXCEPT !.ssim_to_prev = e[p].ssim,
                                !.optical_flow_mag = e[p].flow]
             ELSE [fr[p] EXCEPT !.ssim_to_prev = 100,
                                !.optical_flow_mag = 0]]

BaselineCompare(fr, b) ==
    IF ~b.given THEN fr
    ELSE [p \in DOMAIN fr |->
            IF fr[p].hash # NoHash /\ fr[p].hash \notin b.hashes
            THEN [fr[p] EXCEPT
                    !.type = INSERTION,
                    !.evidence_obj.reasons = Append(@, R_BASELINE),
                    !.evidence_obj.confidence = SANGAT_TINGGI]
            ELSE fr[p]]

run_tahap_2_analisis_temporal ==
    /\ pc = "tahap2"
    /\ frames' = BaselineCompare(TemporalFeatures(frames, env), baseline)
    /\ pc' = "tahap3"
    /\ UNCHANGED <<env, baseline, metadata, fps, confidence_distribution,
                   scan_pos, event, locs, localizations, summary, ferm, ferm_again,
                   CONFIG,
                   pending, clusters>>

(***************************************************************************)
(* TAHAP 3, analyses 1-3: optical flow, SSIM, scene change                 *)
(***************************************************************************)
AddReason(f, r) == [f EXCEPT !.evidence_obj.reasons = Append(@, r)]

AddMetric(f, k, v) == [f EXCEPT !.evidence_obj.metrics = Put(@, k, v)]

AddExplanation(f, k) == [f EXCEPT !.evidence_obj.explanations = Put(@, k, f.index)]

\* round(z_score, 2) in hundredths; with MAD = 0 (replaced by 1e-9) the score
\* is beyond any finite-MAD score and is represented by +-1000000
ZScore100(sd, mad4) ==
    IF mad4 = 0 THEN (IF sd > 0 THEN 1000000 ELSE IF sd < 0 THEN -1000000 ELSE 0)
    ELSE RoundDiv(1349 * sd, 10 * mad4)

\* FlowSpike without abs(): only flows above the median count
FlowSpikeUpward(v, med2, mad4) ==
    2 * 6745 * (2 * v - med2) > CONFIG.OPTICAL_FLOW_Z_THRESH * 10000 * mad4

\* abs(0.6745 * (v - median) / mad) > CONFIG["OPTICAL_FLOW_Z_THRESH"]
FlowSpike(v, med2, mad4) ==
    2 * 6745 * Abs(2 * v - med2) > CONFIG.OPTICAL_FLOW_Z_THRESH * 10000 * mad4

FlowPass(fr) ==
    LET n == Len(fr)
        present == {p \in 1..n : fr[p].optical_flow_mag # None}
        qualifying == {p \in present : fr[p].optical_flow_mag > 0}
        idxs == SelectIdx(n, qualifying, 1)
        filtered_flow_mags == [i \in DOMAIN idxs |-> fr[idxs[i]].optical_flow_mag]
    IN IF present # {} /\ Len(filtered_flow_mags) > 1
       THEN LET med2 == Median2(filtered_flow_mags)
                mad4 == Mad4(filtered_flow_mags)
            IN [p \in DOMAIN fr |->
                  IF p \in qualifying /\ FlowSpike(fr[p].optical_flow_mag, med2, mad4)
                  THEN AddExplanation(
                         AddMetric(AddReason(fr[p], R_FLOW), "optical_flow_z_score",
                                   ZScore100(2 * fr[p].optical_flow_mag - med2, mad4)),
                         "optical_flow")
                  ELSE fr[p]]
       ELSE fr

SsimPass(fr) ==
    [p \in DOMAIN fr |->
        IF p > 1 /\ fr[p].ssim_to_prev # None /\ fr[p - 1].ssim_to_prev # None
        THEN LET ssim_drop == fr[p - 1].ssim_to_prev - fr[p].ssim_to_prev
             IN IF ssim_drop > CONFIG.SSIM_DISCONTINUITY_DROP
                THEN AddExplanation(
                       AddMetric(AddReason(fr[p], R_SSIM_DROP), "ssim_drop", ssim_drop),
                       "ssim_drop")
                ELSE IF fr[p].ssim_to_prev < 70
                THEN AddExplanation(
                       AddMetric(AddReason(fr[p], R_SSIM_LOW), "ssim_absolute_low",
                                 fr[p].ssim_to_prev),
                       "ssim_low")
                ELSE fr[p]
        ELSE fr[p]]

ScenePass(fr) ==
    [p \in DOMAIN fr |->
        IF p > 1 /\ fr[p].color_cluster # None /\ fr[p - 1].color_cluster # None
                 /\ fr[p].color_cluster # fr[p - 1].color_cluster
        THEN AddExplanation(
               AddMetric(AddReason(fr[p], R_SCENE), "color_cluster_jump",
                         10 * fr[p - 1].color_cluster + fr[p].color_cluster),
               "scene_change")
        ELSE fr[p]]

(***************************************************************************)
(* TAHAP 3, supporting method 1: duplicate verification (SIFT + RANSAC)    *)
(***************************************************************************)
\* what compare_sift_enhanced returns for the raw matcher outcome raw =
\* [ok, good, homography, inliers]
compare_sift_enhanced(raw) ==
    IF ~raw.ok
    THEN [success |-> FALSE, good_matches |-> 0, has_inliers |-> FALSE, inliers |-> 0]
    ELSE IF raw.good > CONFIG.SIFT_MIN_MATCH_COUNT /\ raw.homography
    THEN [success |-> TRUE, good_matches |-> raw.good, has_inliers |-> TRUE,
          inliers |-> raw.inliers]
    ELSE [success |-> TRUE, good_matches |-> raw.good, has_inliers |-> FALSE,
          inliers |-> 0]

\* ssim_val > CONFIG["DUPLICATION_SSIM_CONFIRM"]
SsimConfirms(ssim_val) == ssim_val > CONFIG.DUPLICATION_SSIM_CONFIRM

\* sift_result.get('success') and sift_result.get('inliers', 0) >= CONFIG["SIFT_MIN_MATCH_COUNT"]
SiftConfirms(sift_result) ==
    /\ sift_result.success
    /\ (IF sift_result.has_inliers THEN sift_result.inliers ELSE 0)
          >= CONFIG.SIFT_MIN_MATCH_COUNT

\* the (idx1, idx2) comparisons in the order the loops make them: hash groups
\* in order of first occurrence, later members in frame order
GroupPairs(fr, p) ==
    LET later == SelectIdx(Len(fr), {q \in (p + 1)..Len(fr) : fr[q].hash = fr[p].hash}, 1)
    IN [i \in DOMAIN later |-> <<fr[p].index, fr[later[i]].index>>]

\* the comparisons of the groups that start at the positions lo..hi
RECURSIVE DupPairsIn(_, _, _)
DupPairsIn(fr, lo, hi) ==
    IF lo > hi THEN <<>>
    ELSE IF lo = hi
    THEN (IF fr[lo].hash # NoHash /\ \A q \in 1..(lo - 1) : fr[q].hash # fr[lo].hash
          THEN GroupPairs(fr, lo) ELSE <<>>)
    ELSE DupPairsIn(fr, lo, (lo + hi) \div 2) \o DupPairsIn(fr, (lo + hi) \div 2 + 1, hi)

DupPairs(fr, p) == DupPairsIn(fr, p, Len(fr))

\* the list position Python's frames[idx] addresses (sequences here start at 1)
FramePos(idx) == idx + 1

MarkDuplicate(f, idx1, ssim_val, sift_result) ==
    LET g == [f EXCEPT
                !.type = DUPLICATION,
                !.evidence_obj.reasons = Append(@, R_DUP(idx1)),
                !.evidence_obj.metrics = Update(@,
                    [k \in {"source_frame", "ssim_to_source", "sift_inliers",
                            "sift_good_matches", "sift_inlier_ratio"} |->
                        CASE k = "source_frame" -> idx1
                          [] k = "ssim_to_source" -> ssim_val
                          [] k = "sift_inliers" -> sift_result.inliers
                          [] k = "sift_good_matches" -> sift_result.good_matches
                          [] OTHER -> RoundDiv(1000 * sift_result.inliers,
                                               sift_result.good_matches)]),
                !.evidence_obj.sift_path = TRUE]
    IN [g EXCEPT !.evidence_obj.explanations = Put(@, "duplication", idx1)]

\* one iteration of the inner loop on st = [fr, crashed]
DupStep(st, e, pair) ==
    LET idx1 == pair[1]
        idx2 == pair[2]
    IN IF FramePos(idx2) > Len(st.fr)
       THEN [st EXCEPT !.crashed = TRUE]
       ELSE LET ssim_val == e[FramePos(idx2)].dup_ssim
                sift_result == compare_sift_enhanced(e[FramePos(idx2)].sift)
            IN IF ssim_val # None /\ SsimConfirms(ssim_val) /\ SiftConfirms(sift_result)
               THEN [st EXCEPT !.fr[FramePos(idx2)] =
                        MarkDuplicate(@, idx1, ssim_val, sift_result)]
               ELSE st

\* the iterations for pairs[lo..hi] in order, none after the one that raised
RECURSIVE DupFold(_, _, _, _, _)
DupFold(st, e, pairs, lo, hi) ==
    IF st.crashed \/ lo > hi THEN st
    ELSE IF lo = hi THEN DupStep(st, e, pairs[lo])
    ELSE LET mid == (lo + hi) \div 2
             first == DupFold(st, e, pairs, lo, mid)
         IN DupFold(first, e, pairs, mid + 1, hi)

DupPass(fr, e) ==
    LET pairs == DupPairs(fr, 1)
    IN DupFold([fr |-> fr, crashed |-> FALSE], e, pairs, 1, Len(pairs))

(***************************************************************************)
(* TAHAP 3, supporting method 2: classification, confidence and ELA        *)
(***************************************************************************)
\* ConfidenceFor with the tiers of two and of three reasons exchanged
ConfidenceForExchanged(type, num_reasons) ==
    IF type = DUPLICATION \/ type = INSERTION THEN SANGAT_TINGGI
    ELSE IF num_reasons > 2 THEN SEDANG
    ELSE IF num_reasons > 1 THEN TINGGI
    ELSE RENDAH

\* ConfidenceFor with >= where the code compares with >
ConfidenceForInclusive(type, num_reasons) ==
    IF type = DUPLICATION \/ type = INSERTION THEN SANGAT_TINGGI
    ELSE IF num_reasons >= 2 THEN TINGGI
    ELSE IF num_reasons >= 1 THEN SEDANG
    ELSE RENDAH

ConfidenceFor(type, num_reasons) ==
    IF type = DUPLICATION \/ type = INSERTION THEN SANGAT_TINGGI
    ELSE IF num_reasons > 2 THEN TINGGI
    ELSE IF num_reasons > 1 THEN SEDANG
    ELSE RENDAH

\* Escalate with two successive tests where the code has if / elif
EscalateFallingThrough(confidence, suspicious_count) ==
    IF suspicious_count > 5
    THEN (IF confidence = SEDANG \/ confidence = TINGGI THEN SANGAT_TINGGI
          ELSE confidence)
    ELSE confidence

Escalate(confidence, suspicious_count) ==
    IF suspicious_count > 5
    THEN (IF confidence = SEDANG THEN TINGGI
          ELSE IF confidence = TINGGI THEN SANGAT_TINGGI
          ELSE confidence)
    ELSE confidence

\* ElaStep without the test of the frame's type
ElaStepOnAnyType(f, ela) ==
    IF /\ f.evidence_obj.confidence \in {SEDANG, TINGGI, SANGAT_TINGGI}
       /\ ela.ok
    THEN LET g == [f EXCEPT !.evidence_obj.ela_path = TRUE]
         IN IF ela.suspicious_count > 0
            THEN LET h == IF R_ELA \in Range(g.evidence_obj.reasons)
                          THEN g ELSE AddReason(g, R_ELA)
                     m == AddMetric(AddMetric(h, "ela_max_difference", ela.max_diff),
                                    "ela_suspicious_regions", ela.suspicious_count)
                 IN AddExplanation(
                      [m EXCEPT !.evidence_obj.confidence =
                                    Escalate(@, ela.suspicious_count)],
                      "ela")
            ELSE g
    ELSE f

ElaStep(f, ela) ==
    IF /\ f.evidence_obj.confidence \in {SEDANG, TINGGI, SANGAT_TINGGI}
       /\ f.type \notin {DUPLICATION, INSERTION}
       /\ ela.ok
    THEN LET g == [f EXCEPT !.evidence_obj.ela_path = TRUE]
         IN IF ela.suspicious_count > 0
            THEN LET h == IF R_ELA \in Range(g.evidence_obj.reasons)
                          THEN g ELSE AddReason(g, R_ELA)
                     m == AddMetric(AddMetric(h, "ela_max_difference", ela.max_diff),
                                    "ela_suspicious_regions", ela.suspicious_count)
                 IN AddExplanation(
                      [m EXCEPT !.evidence_obj.confidence =
                                    Escalate(@, ela.suspicious_count)],
                      "ela")
            ELSE g
    ELSE f

\* ClassifyFrame without 'if f.type == "original": f.type = ...'
ClassifyFrameKeepingType(f, ela) ==
    IF f.evidence_obj.reasons # <<>>
    THEN LET g == [f EXCEPT !.evidence_obj.reasons_is_str = FALSE,
                            !.evidence_obj.confidence =
                                ConfidenceFor(f.type, Len(f.evidence_obj.reasons))]
         IN ElaStep(g, ela)
    ELSE f

ClassifyFrame(f, ela) ==
    IF f.evidence_obj.reasons # <<>>
    THEN LET t == IF f.type = ORIGINAL THEN DISCONTINUITY ELSE f.type
             g == [f EXCEPT !.type = t,
                            !.evidence_obj.reasons_is_str = FALSE,
                            !.evidence_obj.confidence =
                                ConfidenceFor(t, Len(f.evidence_obj.reasons))]
         IN ElaStep(g, ela)
    ELSE f

ReasonRank(r) ==
    CASE r = R_ELA -> 1
      [] r = R_BASELINE -> 3
      [] r = R_FLOW -> 4
      [] r = R_SSIM_DROP -> 5
      [] r = R_SCENE -> 6
      [] r = R_SSIM_LOW -> 7
      [] OTHER -> 2

\* sorted(list(set(reasons))): the tags of the joined string, in its order
SortedSet(reasons) ==
    LET S == Range(reasons)
    IN [i \in 1..Cardinality(S) |->
          CHOOSE r \in S : Cardinality({q \in S : ReasonRank(q) < ReasonRank(r)}) = i - 1]

JoinReasons(f) ==
    IF ~f.evidence_obj.reasons_is_str /\ f.evidence_obj.reasons # <<>>
    THEN [f EXCEPT !.evidence_obj.reasons = SortedSet(@),
                   !.evidence_obj.reasons_is_str = TRUE]
    ELSE f

\* Counter of evidence_obj.confidence over the anomalous frames, as a dict
ConfidenceLevels(fr) ==
    LET anom == {p \in DOMAIN fr : IsAnomaly(fr[p])}
    IN [c \in {fr[p].evidence_obj.confidence : p \in anom} |->
          Cardinality({p \in anom : fr[p].evidence_obj.confidence = c})]

\* the frames after the three analyses and the duplicate verification
Tahap3Verified(fr, e) == DupPass(ScenePass(SsimPass(FlowPass(fr))), e)

Tahap3Final(fr, e) ==
    [p \in DOMAIN fr |-> JoinReasons(ClassifyFrame(fr[p], e[p].ela))]

run_tahap_3_sintesis_bukti ==
    /\ pc = "tahap3"
    /\ IF Len(frames) < 2
       THEN /\ pc' = "tahap4"
            /\ UNCHANGED <<frames, confidence_distribution>>
       ELSE LET st == Tahap3Verified(frames, env)
            IN IF st.crashed
               THEN /\ pc' = "crashed"
                    /\ frames' = st.fr
                    /\ UNCHANGED confidence_distribution
               ELSE /\ pc' = "tahap4"
                    /\ frames' = Tahap3Final(st.fr, env)
                    /\ confidence_distribution' = ConfidenceLevels(frames')
    /\ UNCHANGED <<env, baseline, metadata, fps, scan_pos, event, locs,
                   localizations, summary, ferm, ferm_again, CONFIG,
                   pending, clusters>>

(***************************************************************************)
(* TAHAP 4: localization scan, one frame per step                          *)
(***************************************************************************)
NewEvent(f) ==
    [event |-> f.type, start_frame |-> f.index, end_frame |-> f.index,
     start_ts |-> f.timestamp, end_ts |-> f.timestamp, frame_count |-> 1,
     confidence |-> f.evidence_obj.confidence,
     explanations |-> f.evidence_obj.explanations,
     duration |-> 0, severity_score |-> 0]

\* Extends without the contiguity test: any later frame of the type extends
ExtendsAcrossGap(ev, f) ==
    /\ ev # <<>>
    /\ ev[1].event = f.type

\* Extends without the type test: any contiguous anomalous frame extends
ExtendsAcrossTypes(ev, f) ==
    /\ ev # <<>>
    /\ f.index = ev[1].end_frame + 1

\* event and event["event"] == f.type and f.index == event["end_frame"] + 1
Extends(ev, f) ==
    /\ ev # <<>>
    /\ ev[1].event = f.type
    /\ f.index = ev[1].end_frame + 1

\* ExtendEvent taking the confidence of the incoming frame
ExtendEventLatestConfidence(e, f) ==
    [e EXCEPT
        !.end_frame = f.index,
        !.end_ts = f.timestamp,
        !.frame_count = @ + 1,
        !.confidence = f.evidence_obj.confidence,
        !.explanations = Update(@, f.evidence_obj.explanations)]

ExtendEvent(e, f) ==
    [e EXCEPT
        !.end_frame = f.index,
        !.end_ts = f.timestamp,
        !.frame_count = @ + 1,
        !.confidence = IF conf_hierarchy(f.evidence_obj.confidence) > conf_hierarchy(@)
                       THEN f.evidence_obj.confidence ELSE @,
        !.explanations = Update(@, f.evidence_obj.explanations)]

\* LocalizeFrame without the locs.append(event) of the elif branch: a frame
\* that is no anomaly discards the open event
LocalizeFrameDroppingOpenEvent ==
    /\ pc = "tahap4"
    /\ scan_pos <= Len(frames)
    /\ LET f == frames[scan_pos]
       IN IF IsAnomaly(f)
          THEN IF Extends(event, f)
               THEN /\ event' = <<ExtendEvent(event[1], f)>>
                    /\ locs' = locs
               ELSE /\ locs' = locs \o event
                    /\ event' = <<NewEvent(f)>>
          ELSE /\ locs' = locs
               /\ event' = <<>>
    /\ scan_pos' = scan_pos + 1
    /\ UNCHANGED <<frames, env, baseline, metadata, fps, pc, confidence_distribution,
                   localizations, summary, ferm, ferm_again, CONFIG,
                   pending, clusters>>

LocalizeFrame ==
    /\ pc = "tahap4"
    /\ scan_pos <= Len(frames)
    /\ LET f == frames[scan_pos]
       IN IF IsAnomaly(f)
          THEN IF Extends(event, f)
               THEN /\ event' = <<ExtendEvent(event[1], f)>>
                    /\ locs' = locs
               ELSE /\ locs' = locs \o event
                    /\ event' = <<NewEvent(f)>>
          ELSE /\ locs' = locs \o event
               /\ event' = <<>>
    /\ scan_pos' = scan_pos + 1
    /\ UNCHANGED <<frames, env, baseline, metadata, fps, pc, confidence_distribution,
                   localizations, summary, ferm, ferm_again, CONFIG,
                   pending, clusters>>

(***************************************************************************)
(* Event severity                                                          *)
(***************************************************************************)
type_severity(t) ==
    CASE t = INSERTION -> 8
      [] t = DUPLICATION -> 6
      [] t = DISCONTINUITY -> 5
      [] OTHER -> 3

confidence_multiplier(c) ==
    CASE c = SANGAT_TINGGI -> 12
      [] c = TINGGI -> 10
      [] c = SEDANG -> 8
      [] c = RENDAH -> 6
      [] OTHER -> 5

\* the severity left as computed, without the final clamp
NotNormalized(severity) == severity

\* min(1.0, max(0.0, severity)), in ten-thousandths
Normalize01(severity) == Min(10000, Max(0, severity))

calculate_event_severity(e) ==
    Normalize01(type_severity(e.event) * confidence_multiplier(e.confidence)
                * (IF e.duration > 5000 THEN 12 ELSE IF e.duration > 2000 THEN 11 ELSE 10)
                * (IF e.frame_count > 10 THEN 11 ELSE 10))

\* EnhanceLoc with the severity computed before the duration is set
EnhanceLocSeverityFirst(loc) ==
    LET d == [loc EXCEPT !.severity_score = calculate_event_severity(loc)]
    IN [d EXCEPT !.duration = loc.end_ts - loc.start_ts]

EnhanceLoc(loc) ==
    LET d == [loc EXCEPT !.duration = loc.end_ts - loc.start_ts]
    IN [d EXCEPT !.severity_score = calculate_event_severity(d)]

(***************************************************************************)
(* FERM: evidence strength                                                 *)
(***************************************************************************)
\* a / b as the fraction [num, den]; den = 0 stands for ZeroDivisionError
Frac(a, b) == [num |-> a, den |-> b]

Raised(q) == q.den = 0

\* the reason tags FERM iterates over: reasons.split(', ') of the joined
\* string, or the list itself
ReasonTags(f) == Range(f.evidence_obj.reasons)

MethodsOfReason(r) ==
    CASE r \in {R_SSIM_DROP, R_SSIM_LOW} -> {"ssim"}
      [] r = R_FLOW -> {"optical_flow"}
      [] r = R_SCENE -> {"kmeans"}
      [] r = R_ELA -> {"ela"}
      [] r = R_BASELINE -> {}
      [] OTHER -> {"sift"}

FrameMethods(f) == UNION {MethodsOfReason(r) : r \in ReasonTags(f)}

\* the positions that get an entry in method_confirmations
Confirmed(fr) == {p \in DOMAIN fr : IsAnomaly(fr[p]) /\ FrameMethods(fr[p]) # {}}

multi_method_confirmation(fr) ==
    LET ent == Confirmed(fr)
        nm(p) == Cardinality(FrameMethods(fr[p]))
        counts == [k \in {nm(p) : p \in ent} |-> Cardinality({p \in ent : nm(p) = k})]
        total == SumMap(counts)
        weighted == SumMap([k \in DOMAIN counts |-> k * counts[k]])
        multiple == SumMap([k \in {x \in DOMAIN counts : x > 1} |-> counts[k]])
    IN [counts |-> counts,
        average_methods_per_anomaly |->
            IF DOMAIN counts # {} THEN Frac(weighted, total) ELSE Frac(0, 1),
        max_methods |->
            IF DOMAIN counts # {}
            THEN CHOOSE k \in DOMAIN counts : \A x \in DOMAIN counts : x <= k
            ELSE 0,
        percentage_confirmed_by_multiple |->
            IF DOMAIN counts # {} THEN Frac(multiple, total) ELSE Frac(0, 1)]

FermConfidenceDistribution(fr, cd) ==
    IF DOMAIN cd # {} THEN cd ELSE ConfidenceLevels(fr)

\* false_positive_risks.get(level, 0.5), in hundredths
false_positive_risks(level) ==
    CASE level = SANGAT_TINGGI -> 5
      [] level = TINGGI -> 15
      [] level = SEDANG -> 30
      [] level = RENDAH -> 50
      [] OTHER -> 50

\* the weighted mean taken whether or not the distribution has entries
WeightedFpRiskUnguarded(cd) ==
    Frac(SumMap([l \in DOMAIN cd |-> cd[l] * false_positive_risks(l)]), SumMap(cd))

WeightedFpRisk(cd) ==
    IF DOMAIN cd # {}
    THEN (IF SumMap(cd) > 0
          THEN Frac(SumMap([l \in DOMAIN cd |-> cd[l] * false_positive_risks(l)]),
                    SumMap(cd))
          ELSE Frac(50, 1))
    ELSE Frac(25, 1)

\* 1.0 - weighted_fp_risk
ReliabilityScore(risk) == Frac(100 * risk.den - risk.num, risk.den)

AnomalyCount(fr) == Cardinality({p \in DOMAIN fr : IsAnomaly(fr[p])})

identify_false_positive_risk_factors(fr, md) ==
    LET low == md.bitrate # None /\ md.bitrate < 500
    IN (IF low THEN <<"Bitrate Rendah">> ELSE <<>>)
       \o (IF md.codec \in {"MPEG-4", "H.264"} /\ low
           THEN <<"Format Kompresi Tinggi">> ELSE <<>>)
       \o (IF Len(fr) < 30 THEN <<"Durasi Video Pendek">> ELSE <<>>)
       \o <<"Frame Rate Tidak Konsisten">>
       \o (IF 10 * AnomalyCount(fr) > 3 * Len(fr)
           THEN <<"Deteksi Anomali Berlebihan">> ELSE <<>>)

evidence_strength(fr, cd, md) ==
    [multi_method_confirmation |-> multi_method_confirmation(fr),
     confidence_distribution |-> FermConfidenceDistribution(fr, cd),
     false_positive_assessment |->
        [weighted_risk |-> WeightedFpRisk(cd),
         risk_factors |-> identify_false_positive_risk_factors(fr, md),
         reliability_score |-> ReliabilityScore(WeightedFpRisk(cd))]]

(***************************************************************************)
(* FERM: anomaly characterization                                          *)
(***************************************************************************)
\* sizes of the temporal clusters of a[lo..hi] (gaps of at most 3): the
\* clusters of the two halves, the last of the first half and the first of
\* the second being one cluster when the gap between the halves is at most 3
RECURSIVE ClusterSizes(_, _, _)
ClusterSizes(a, lo, hi) ==
    IF lo = hi THEN <<1>>
    ELSE LET mid == (lo + hi) \div 2
             left == ClusterSizes(a, lo, mid)
             right == ClusterSizes(a, mid + 1, hi)
         IN IF a[mid + 1] - a[mid] <= 3
            THEN SubSeq(left, 1, Len(left) - 1)
                 \o <<left[Len(left)] + right[1]>>
                 \o Tail(right)
            ELSE left \o right

TemporalClusters(a) == IF a = <<>> THEN <<>> ELSE ClusterSizes(a, 1, Len(a))

MaxOfSeq(s) == CHOOSE v \in Range(s) : \A x \in Range(s) : x <= v

RECURSIVE FloorLog2(_)
FloorLog2(m) == IF m < 2 THEN 0 ELSE 1 + FloorLog2(m \div 2)

\* n * 0.7 in binary64 arithmetic is below the integer m = 7n/10: the stored
\* 0.7 is 0.7 - 0.4 * 2^-53, so the exact product is m - (4m/7) * 2^-53 and
\* rounds to the double below m when (4m/7) * 2^-53 is more than half the
\* spacing 2^(k-52) of the doubles in [2^k, 2^(k+1)) that m lies in (a tie
\* rounds to m, whose significand is even); n = 90 is the least such n
SeventyPercentRoundsBelow(n) ==
    /\ n > 0
    /\ (7 * n) % 10 = 0
    /\ LET m == (7 * n) \div 10
       IN 4 * m > 7 * 2^FloorLog2(m)

\* n_clusters > n_anomalies * 0.7 in binary64 arithmetic
MoreThanSeventyPercent(n_clusters, n_anomalies) ==
    \/ 10 * n_clusters > 7 * n_anomalies
    \/ 10 * n_clusters = 7 * n_anomalies /\ SeventyPercentRoundsBelow(n_anomalies)

DistributionPattern(n_clusters, n_anomalies) ==
    IF MoreThanSeventyPercent(n_clusters, n_anomalies) THEN "terisolasi"
    ELSE IF n_clusters > 1 THEN "terkelompok"
    ELSE IF n_anomalies > 0 THEN "sistematis"
    ELSE "tidak ada"

temporal_distribution(fr) ==
    LET pos == SelectIdx(Len(fr), {p \in DOMAIN fr : IsAnomaly(fr[p])}, 1)
        anomaly_frames == [i \in DOMAIN pos |-> fr[pos[i]].index]
        temporal_clusters == TemporalClusters(anomaly_frames)
    IN [total_anomalies |-> Len(anomaly_frames),
        anomaly_density |->
            IF Len(fr) > 0 THEN Frac(Len(anomaly_frames), Len(fr)) ELSE Frac(0, 1),
        cluster_count |-> Len(temporal_clusters),
        avg_cluster_size |->
            IF temporal_clusters # <<>>
            THEN Frac(SumSeq(temporal_clusters), Len(temporal_clusters)) ELSE Frac(0, 1),
        largest_cluster |->
            IF temporal_clusters # <<>> THEN MaxOfSeq(temporal_clusters) ELSE 0,
        distribution_pattern |->
            DistributionPattern(Len(temporal_clusters), Len(anomaly_frames))]

\* severity 1.0; every possible len(metrics) (1..10) divides 2520
SevUnit == 2520 * 1000

\* the sum of the normalized severity metrics, in thousandths
SeveritySum(m) ==
    (IF "ssim_drop" \in DOMAIN m THEN Min(1000, m["ssim_drop"] * 20) ELSE 0)
    + (IF "optical_flow_z_score" \in DOMAIN m
       THEN Min(1000, Abs(m["optical_flow_z_score"])) ELSE 0)
    + (IF "sift_inlier_ratio" \in DOMAIN m THEN m["sift_inlier_ratio"] ELSE 0)
    + (IF "ela_max_difference" \in DOMAIN m
       THEN Min(1000, m["ela_max_difference"] * 5) ELSE 0)

confidence_severity(c) ==
    CASE c = SANGAT_TINGGI -> 9 * (SevUnit \div 10)
      [] c = TINGGI -> 7 * (SevUnit \div 10)
      [] c = SEDANG -> 5 * (SevUnit \div 10)
      [] c = RENDAH -> 3 * (SevUnit \div 10)
      [] c = N_A -> 1 * (SevUnit \div 10)
      [] OTHER -> 3 * (SevUnit \div 10)

\* the technical severity of one anomalous frame, in 1/SevUnit
FrameSeverity(f) ==
    LET m == f.evidence_obj.metrics
        k == Cardinality(DOMAIN m)
    IN IF k > 0 THEN Min(SevUnit, (SeveritySum(m) * 2520) \div k)
       ELSE confidence_severity(f.evidence_obj.confidence)

SeverityBucket(s) ==
    IF 10 * s > 7 * SevUnit THEN "tinggi"
    ELSE IF 10 * s > 4 * SevUnit THEN "sedang" ELSE "rendah"

technical_severity(fr) ==
    LET anom == {p \in DOMAIN fr : IsAnomaly(fr[p])}
        sev == [p \in anom |-> FrameSeverity(fr[p])]
        types == {fr[p].type : p \in anom}
        of(t) == {p \in anom : fr[p].type = t}
    IN [by_frame |-> sev,
        by_type |-> [t \in types |->
            [mean |-> Frac(SumMap([p \in of(t) |-> sev[p]]), Cardinality(of(t))),
             max |-> CHOOSE v \in {sev[p] : p \in of(t)} : \A q \in of(t) : sev[q] <= v,
             count |-> Cardinality(of(t))]],
        overall_mean_severity |->
            IF anom # {} THEN Frac(SumMap(sev), Cardinality(anom)) ELSE Frac(0, 1),
        high_severity_count |-> Cardinality({p \in anom : 10 * sev[p] > 7 * SevUnit}),
        severity_distribution |->
            [b \in {SeverityBucket(sev[p]) : p \in anom} |->
                Cardinality({p \in anom : SeverityBucket(sev[p]) = b})]]

semantic_context(lc) ==
    [event_types |-> [t \in {lc[i].event : i \in DOMAIN lc} |->
                        Cardinality({i \in DOMAIN lc : lc[i].event = t})],
     significant_events |-> Cardinality({i \in DOMAIN lc : lc[i].severity_score > 7000})]

anomaly_characterization(fr, lc) ==
    [temporal_distribution |-> temporal_distribution(fr),
     technical_severity |-> technical_severity(fr),
     semantic_context |-> semantic_context(lc)]

(***************************************************************************)
(* FERM: causality analysis                                                *)
(***************************************************************************)
TypeCount(fr, t) == Cardinality({p \in DOMAIN fr : fr[p].type = t})

analyze_technical_causes(fr) ==
    [t \in {DUPLICATION, DISCONTINUITY, INSERTION} |->
        [probability |-> IF TypeCount(fr, t) > 0 THEN "Tinggi" ELSE "Rendah",
         count |-> TypeCount(fr, t),
         percentage |-> IF Len(fr) > 0 THEN Frac(TypeCount(fr, t) * 100, Len(fr))
                        ELSE Frac(0, 1)]]

analyze_compression_artifacts(fr) ==
    LET ela_evidence_count ==
            Cardinality({p \in DOMAIN fr : IsAnomaly(fr[p]) /\ fr[p].evidence_obj.ela_path})
        ela_pattern == IF 10 * ela_evidence_count < Len(fr) THEN "konsisten" ELSE "bervariasi"
    IN [ela_evidence_pattern |-> ela_pattern,
        ela_evidence_count |-> ela_evidence_count,
        compression_vs_manipulation_assessment |->
            IF ela_evidence_count > 10 /\ ela_pattern = "bervariasi"
            THEN "Kemungkinan besar manipulasi"
            ELSE IF ela_evidence_count > 5 THEN "Mungkin manipulasi"
            ELSE "Kemungkinan besar artefak kompresi normal"]

\* LikelihoodRank with the order of the four likelihoods reversed
LikelihoodRankReversed(l) ==
    CASE l = "Rendah" -> 4
      [] l = "Sedang" -> 3
      [] l = "Sedang-Tinggi" -> 2
      [] l = "Tinggi" -> 1

LikelihoodRank(l) ==
    CASE l = "Rendah" -> 1
      [] l = "Sedang" -> 2
      [] l = "Sedang-Tinggi" -> 3
      [] l = "Tinggi" -> 4

AlternativeKeys ==
    <<"compression_artifacts", "scene_transitions", "camera_movement",
      "lighting_changes", "repeated_content">>

generate_alternative_explanations(fr, md) ==
    LET low_bitrate == md.bitrate # None /\ md.bitrate < 1000
        kmeans_changes ==
            Cardinality({p \in 2..Len(fr) :
                /\ fr[p].color_cluster # None
                /\ fr[p - 1].color_cluster # None
                /\ fr[p].color_cluster # fr[p - 1].color_cluster})
        high_flow_frames ==
            Cardinality({p \in DOMAIN fr :
                fr[p].optical_flow_mag # None /\ fr[p].optical_flow_mag > 10})
        camera == 10 * high_flow_frames > Len(fr)
        likelihood ==
            [k \in Range(AlternativeKeys) |->
                CASE k = "compression_artifacts" -> IF low_bitrate THEN "Tinggi" ELSE "Sedang"
                  [] k = "scene_transitions" ->
                        IF kmeans_changes > 0 THEN "Tinggi" ELSE "Sedang-Tinggi"
                  [] k = "camera_movement" -> IF camera THEN "Tinggi" ELSE "Sedang"
                  [] k = "lighting_changes" -> "Sedang"
                  [] OTHER -> "Rendah"]
        upgraded ==
            (IF low_bitrate THEN <<"compression_artifacts">> ELSE <<>>)
            \o (IF kmeans_changes > 0 THEN <<"scene_transitions">> ELSE <<>>)
            \o (IF camera THEN <<"camera_movement">> ELSE <<>>)
        relevant ==
            upgraded \o SelectSeq(AlternativeKeys,
                LAMBDA k : k \notin Range(upgraded)
                           /\ likelihood[k] \in {"Sedang", "Sedang-Tinggi", "Tinggi"})
        \* max() keeps the first of the entries with the highest rank
        best == IF relevant = <<>> THEN 0
                ELSE CHOOSE i \in DOMAIN relevant :
                    /\ \A j \in DOMAIN relevant :
                         LikelihoodRank(likelihood[relevant[j]])
                            <= LikelihoodRank(likelihood[relevant[i]])
                    /\ \A j \in 1..(i - 1) :
                         LikelihoodRank(likelihood[relevant[j]])
                            < LikelihoodRank(likelihood[relevant[i]])
    IN [all_alternatives |-> likelihood,
        relevant_alternatives |-> relevant,
        most_likely_alternative |-> IF relevant = <<>> THEN Unset ELSE relevant[best]]

causality_analysis(fr, md) ==
    [technical_causes |-> analyze_technical_causes(fr),
     compression_vs_manipulation |-> analyze_compression_artifacts(fr),
     alternative_explanations |-> generate_alternative_explanations(fr, md)]

(***************************************************************************)
(* FERM: conclusion                                                        *)
(***************************************************************************)
confidence_weights(level) == IF level = N_A THEN 0 ELSE conf_hierarchy(level)

AvgConfidence(confidence_dist) ==
    IF DOMAIN confidence_dist # {}
    THEN (IF SumMap(confidence_dist) > 0
          THEN Frac(SumMap([l \in DOMAIN confidence_dist |->
                              confidence_weights(l) * confidence_dist[l]]),
                    SumMap(confidence_dist))
          ELSE Frac(0, 1))
    ELSE Frac(0, 1)

FindingConfidence(avg) ==
    IF avg.num > 3 * avg.den THEN "Tinggi"
    ELSE IF avg.num > 2 * avg.den THEN "Sedang" ELSE "Rendah"

PrimaryFindings(fr, avg) ==
    LET finding(t) ==
            IF TypeCount(fr, t) > 0
            THEN <<[type |-> t, count |-> TypeCount(fr, t),
                    confidence |-> FindingConfidence(avg)]>>
            ELSE <<>>
    IN finding(DUPLICATION) \o finding(DISCONTINUITY) \o finding(INSERTION)

ReliabilityFactors(es, ac, ca) ==
    LET avg_methods == es.multi_method_confirmation.average_methods_per_anomaly
        fp_risk == es.false_positive_assessment.weighted_risk
        temp_dist == ac.temporal_distribution.distribution_pattern
        avg_severity == ac.technical_severity.overall_mean_severity
        most_likely_alt == ca.alternative_explanations.most_likely_alternative
    IN << [factor |-> "Konfirmasi Multi-Metode",
           impact |-> IF avg_methods.num >= 2 * avg_methods.den
                      THEN "Positif" ELSE "Negatif"],
          [factor |-> "Risiko Positif Palsu",
           impact |-> IF fp_risk.num < 20 * fp_risk.den THEN "Positif"
                      ELSE IF fp_risk.num < 40 * fp_risk.den THEN "Netral"
                      ELSE "Negatif"],
          [factor |-> "Distribusi Temporal",
           impact |-> IF temp_dist = "terkelompok" THEN "Positif"
                      ELSE IF temp_dist = "sistematis" THEN "Netral" ELSE "Negatif"],
          [factor |-> "Tingkat Keparahan Teknis",
           impact |-> IF 10 * avg_severity.num > 7 * SevUnit * avg_severity.den
                      THEN "Positif"
                      ELSE IF 10 * avg_severity.num > 4 * SevUnit * avg_severity.den
                      THEN "Netral" ELSE "Negatif"] >>
       \o (IF most_likely_alt # Unset
           THEN LET alt_likelihood ==
                        ca.alternative_explanations.all_alternatives[most_likely_alt]
                IN <<[factor |-> "Penjelasan Alternatif",
                      impact |-> IF alt_likelihood = "Tinggi" THEN "Negatif"
                                 ELSE IF alt_likelihood = "Sedang-Tinggi" THEN "Netral"
                                 ELSE "Positif"]>>
           ELSE <<>>)

\* Reliability with > where the code compares the two counts with >=
ReliabilityStrict(positive_count, negative_count) ==
    IF positive_count >= 3 /\ negative_count <= 1 THEN "Reliabilitas Tinggi"
    ELSE IF positive_count >= 2 /\ negative_count <= 2 THEN "Reliabilitas Sedang"
    ELSE IF positive_count > negative_count THEN "Reliabilitas Terbatas"
    ELSE "Reliabilitas Rendah"

Reliability(positive_count, negative_count) ==
    IF positive_count >= 3 /\ negative_count <= 1 THEN "Reliabilitas Tinggi"
    ELSE IF positive_count >= 2 /\ negative_count <= 2 THEN "Reliabilitas Sedang"
    ELSE IF positive_count >= negative_count THEN "Reliabilitas Terbatas"
    ELSE "Reliabilitas Rendah"

generate_forensic_conclusions(fr, es, ac, ca) ==
    LET primary_findings == PrimaryFindings(fr, AvgConfidence(es.confidence_distribution))
        reliability_factors == ReliabilityFactors(es, ac, ca)
        positive_count ==
            Cardinality({i \in DOMAIN reliability_factors :
                            reliability_factors[i].impact = "Positif"})
        negative_count ==
            Cardinality({i \in DOMAIN reliability_factors :
                            reliability_factors[i].impact = "Negatif"})
        reliability == Reliability(positive_count, negative_count)
        fp_risk == es.false_positive_assessment.weighted_risk
        most_likely_alt == ca.alternative_explanations.most_likely_alternative
    IN [primary_findings |-> primary_findings,
        reliability_assessment |-> reliability,
        reliability_factors |-> reliability_factors,
        recommended_actions |->
            (IF primary_findings # <<>> THEN <<"investigasi segmen anomali">> ELSE <<>>)
            \o (IF fp_risk.num > 30 * fp_risk.den
                THEN <<"materi sumber berkualitas lebih tinggi">> ELSE <<>>)
            \o (IF reliability \in {"Reliabilitas Rendah", "Reliabilitas Terbatas"}
                THEN <<"metode forensik tambahan">> ELSE <<>>)
            \o (IF most_likely_alt # Unset
                   /\ ca.alternative_explanations.all_alternatives[most_likely_alt]
                        \in {"Tinggi", "Sedang-Tinggi"}
                THEN <<"periksa kondisi rekaman asli">> ELSE <<>>)
            \o (IF TypeCount(fr, DUPLICATION) > 0
                THEN <<"bandingkan segmen duplikasi">> ELSE <<>>)]

generate_forensic_evidence_matrix(fr, cd, lc, md) ==
    LET es == evidence_strength(fr, cd, md)
        ac == anomaly_characterization(fr, lc)
        ca == causality_analysis(fr, md)
    IN [evidence_strength |-> es,
        anomaly_characterization |-> ac,
        causality_analysis |-> ca,
        conclusion |-> generate_forensic_conclusions(fr, es, ac, ca)]

\* the divisions of generate_forensic_evidence_matrix: one of them raised
FermRaised(m) ==
    \/ Raised(m.evidence_strength.multi_method_confirmation.average_methods_per_anomaly)
    \/ Raised(m.evidence_strength.multi_method_confirmation.percentage_confirmed_by_multiple)
    \/ Raised(m.evidence_strength.false_positive_assessment.weighted_risk)
    \/ Raised(m.anomaly_characterization.temporal_distribution.anomaly_density)
    \/ Raised(m.anomaly_characterization.temporal_distribution.avg_cluster_size)
    \/ Raised(m.anomaly_characterization.technical_severity.overall_mean_severity)
    \/ \E t \in DOMAIN m.causality_analysis.technical_causes :
          Raised(m.causality_analysis.technical_causes[t].percentage)

(***************************************************************************)
(* TAHAP 4: after the scan                                                 *)
(***************************************************************************)
\* the distribution FERM derived, stored back into the result
ConfidenceDistributionStoredBack(fr, cd) == FermConfidenceDistribution(fr, cd)

\* generate_forensic_evidence_matrix reads result.confidence_distribution and
\* stores what it derives in the matrix only
ConfidenceDistributionAfterFerm(fr, cd) == cd

\* the frame list with the split reasons stored back into every frame
FramesWithReasonsSplit(fr) ==
    [p \in DOMAIN fr |-> [fr[p] EXCEPT !.evidence_obj.reasons_is_str = FALSE]]

\* generate_forensic_evidence_matrix and the analyses it calls bind what they
\* read of a frame (the split reasons, the metrics) to locals
FramesAfterFerm(fr) == fr

Summary(fr, lc) ==
    [total_frames |-> Len(fr),
     total_anomaly |-> AnomalyCount(fr),
     total_events |-> Len(lc),
     total_anomalous_frames |-> SumSeq([i \in DOMAIN lc |-> lc[i].frame_count]),
     high_severity_events |-> Cardinality({i \in DOMAIN lc : lc[i].severity_score > 7000}),
     anomaly_density |-> IF Len(fr) > 0 THEN Frac(AnomalyCount(fr), Len(fr)) ELSE Frac(0, 1)]

run_tahap_4_visualisasi_dan_penilaian ==
    /\ pc = "tahap4"
    /\ scan_pos > Len(frames)
    /\ LET closed == locs \o event
           enhanced == [i \in DOMAIN closed |-> EnhanceLoc(closed[i])]
           m == generate_forensic_evidence_matrix(frames, confidence_distribution,
                                                  enhanced, metadata)
       IN /\ locs' = enhanced
          /\ localizations' = enhanced
          /\ summary' = Summary(frames, enhanced)
          /\ IF FermRaised(m)
             THEN /\ pc' = "crashed_tahap4"
                  /\ UNCHANGED <<frames, ferm, confidence_distribution>>
             ELSE /\ pc' = "done"
                  /\ ferm' = m
                  /\ frames' = FramesAfterFerm(frames)
                  /\ confidence_distribution' =
                        ConfidenceDistributionAfterFerm(frames, confidence_distribution)
    /\ UNCHANGED <<env, baseline, metadata, fps, scan_pos, event, ferm_again, CONFIG,
                   pending, clusters>>

\* a second call of generate_forensic_evidence_matrix(result) on the finished result
regenerate_forensic_evidence_matrix ==
    /\ pc = "done"
    /\ LET m == generate_forensic_evidence_matrix(frames, confidence_distribution,
                                                  localizations, metadata)
       IN IF FermRaised(m)
          THEN /\ pc' = "crashed_tahap4"
               /\ UNCHANGED <<frames, ferm_again, confidence_distribution>>
          ELSE /\ pc' = "regenerated"
               /\ ferm_again' = m
               /\ frames' = FramesAfterFerm(frames)
               /\ confidence_distribution' =
                     ConfidenceDistributionAfterFerm(frames, confidence_distribution)
    /\ UNCHANGED <<env, baseline, metadata, fps, scan_pos, event, locs,
                   localizations, summary, ferm, CONFIG,
                   pending, clusters>>

Next ==
    \/ run_tahap_2_analisis_temporal
    \/ run_tahap_3_sintesis_bukti
    \/ LocalizeFrame
    \/ run_tahap_4_visualisasi_dan_penilaian
    \/ regenerate_forensic_evidence_matrix

(***************************************************************************)
(* Initial states: the result of run_tahap_1_pra_pemrosesan                *)
(***************************************************************************)
\* strictly increasing index lists of length n within 0..top (a frame whose
\* hashing failed in tahap 1 leaves a gap)
IndexLists(n, top) ==
    {ix \in [1..n -> 0..top] : \A p \in 1..(n - 1) : ix[p] < ix[p + 1]}

SiftFail == [ok |-> FALSE, good |-> 0, homography |-> FALSE, inliers |-> 0]

SiftMatch(good, inliers) ==
    [ok |-> TRUE, good |-> good, homography |-> TRUE, inliers |-> inliers]

ElaFail == [ok |-> FALSE, max_diff |-> 0, suspicious_count |-> 0]

Ela(max_diff, suspicious_count) ==
    [ok |-> TRUE, max_diff |-> max_diff, suspicious_count |-> suspicious_count]

NoBaseline == [given |-> FALSE, hashes |-> {}]

Baseline(hashes) == [given |-> TRUE, hashes |-> hashes]

\* D gives, for each input, the set it is drawn from.  Of the collaborators
\* only the grayscale read is ever applied to the first frame of the list, so
\* the other outcomes are drawn for the frames after it.
InitWith(D) ==
    /\ CONFIG \in D.config
    /\ fps \in D.fps
    /\ metadata \in [bitrate : D.bitrate, codec : D.codec]
    /\ baseline \in D.baseline
    /\ \E n \in D.len :
         /\ \E ix \in IndexLists(n, D.top) :
            \E h \in [1..n -> D.hash] :
            \E cl \in [1..n -> IF n >= 2 THEN D.cluster ELSE {None}] :
               frames = [p \in 1..n |-> FrameInfo(ix[p], h[p], cl[p], fps)]
         /\ env \in {[p \in 1..n |-> IF p = 1 THEN first ELSE rest[p]] :
                        first \in [gray_ok : D.gray_ok, ssim : {100}, flow : {0},
                                   dup_ssim : {None}, sift : {SiftFail}, ela : {ElaFail}],
                        rest \in [2..n -> [gray_ok : D.gray_ok, ssim : D.ssim,
                                           flow : D.flow, dup_ssim : D.dup_ssim,
                                           sift : D.sift, ela : D.ela]]}
    /\ pc = "tahap2"
    /\ confidence_distribution = EmptyMap
    /\ scan_pos = 1
    /\ event = <<>>
    /\ locs = <<>>
    /\ localizations = <<>>
    /\ summary = EmptyMap
    /\ ferm = EmptyMap
    /\ ferm_again = EmptyMap
    /\ pending = <<>>
    /\ clusters = <<>>

(***************************************************************************)
(* Localization: frames of all four types, with and without index gaps     *)
(***************************************************************************)
MaxFramesLoc == 4

DomainLoc ==
    [config |-> {DefaultConfig},
     fps |-> {10}, bitrate |-> {None}, codec |-> {"H264"},
     baseline |-> {NoBaseline, Baseline({"a"})},
     len |-> 0..MaxFramesLoc, top |-> MaxFramesLoc,
     hash |-> {"a", "b", "c"}, cluster |-> {0, 1},
     gray_ok |-> {TRUE}, ssim |-> {100}, flow |-> {0},
     dup_ssim |-> {95}, sift |-> {SiftMatch(20, 15)}, ela |-> {ElaFail}]

InitLoc == InitWith(DomainLoc)

SpecLoc == InitLoc /\ [][Next]_vars

(***************************************************************************)
(* Claims about the localization scan                                      *)
(***************************************************************************)
Scanned == pc \in {"done", "regenerated"}

FrameAt(i) == {p \in DOMAIN frames : frames[p].index = i}

\* the events the scan holds: the closed ones and the open one
HeldEvents == IF pc = "tahap4" THEN locs \o event ELSE localizations

EventIsContiguousRun(e) ==
    /\ \A i \in e.start_frame..e.end_frame :
          \E p \in FrameAt(i) : IsAnomaly(frames[p]) /\ frames[p].type = e.event
    /\ e.frame_count = e.end_frame - e.start_frame + 1
    /\ e.frame_count =
          Cardinality({p \in DOMAIN frames :
              e.start_frame <= frames[p].index /\ frames[p].index <= e.end_frame})

\* C1: every event of result.localizations (and every event the scan holds
\* while it runs) covers a gap-free run of frame indices start_frame..end_frame,
\* each index being a frame of the list that is anomalous and of the event's
\* type, and these frames are exactly the frame_count members of the event.
C1_EventsAreContiguousSameTypeRuns ==
    (pc = "tahap4" \/ Scanned) =>
        \A i \in DOMAIN HeldEvents : EventIsContiguousRun(HeldEvents[i])

\* C1 witness: a finished scan over a frame list with an index gap that
\* produced an event of at least two frames and a second event.
C1_Witness ==
    /\ Scanned
    /\ \E p \in 1..(Len(frames) - 1) : frames[p + 1].index > frames[p].index + 1
    /\ Len(localizations) >= 2
    /\ \E i \in DOMAIN localizations : localizations[i].frame_count >= 2

\* what one step of the scan must do with frame f
ScanStepAsClaimed(f) ==
    IF /\ IsAnomaly(f)
       /\ event # <<>>
       /\ event[1].event = f.type
       /\ f.index = event[1].end_frame + 1
    THEN /\ locs' = locs
         /\ Len(event') = 1
         /\ event'[1].start_frame = event[1].start_frame
         /\ event'[1].end_frame = f.index
         /\ event'[1].frame_count = event[1].frame_count + 1
         /\ event'[1].event = event[1].event
    ELSE /\ locs' = locs \o event
         /\ IF IsAnomaly(f)
            THEN /\ Len(event') = 1
                 /\ event'[1].start_frame = f.index
                 /\ event'[1].end_frame = f.index
                 /\ event'[1].frame_count = 1
                 /\ event'[1].event = f.type
            ELSE event' = <<>>

SeparatedFramesInDistinctEvents ==
    \A p, q \in DOMAIN frames :
        (/\ p < q
         /\ IsAnomaly(frames[p])
         /\ IsAnomaly(frames[q])
         /\ \E r \in (p + 1)..(q - 1) : ~IsAnomaly(frames[r]))
        => ~\E i \in DOMAIN localizations :
               /\ localizations[i].start_frame <= frames[p].index
               /\ frames[q].index <= localizations[i].end_frame

AdjacentEventsDifferInType ==
    \A i \in 1..(Len(localizations) - 1) :
        localizations[i].end_frame + 1 = localizations[i + 1].start_frame
            => localizations[i].event # localizations[i + 1].event

\* C2: at most one event is open; a scanned frame extends the open event iff
\* it is anomalous, of the open event's type and at end_frame + 1, and
\* otherwise the open event is closed and appended and an anomalous frame
\* opens a new one; hence anomalous frames separated by a non-anomalous frame
\* lie in distinct events, and adjacent events differ in type.
C2_ScanExtendsIffSameTypeAndContiguous ==
    /\ [](Len(event) <= 1)
    /\ [][(pc = "tahap4" /\ scan_pos' = scan_pos + 1)
            => ScanStepAsClaimed(frames[scan_pos])]_vars
    /\ [](Scanned => SeparatedFramesInDistinctEvents /\ AdjacentEventsDifferInType)

\* C2 witness: frames i, i+1 of one type form one event, the frame after
\* them is not anomalous, the next one forms a second event; and another
\* run where two adjacent events differ in type.
C2_Witness ==
    /\ Scanned
    /\ Len(frames) = 4
    /\ Len(localizations) = 2
    /\ localizations[1].frame_count = 2
    /\ ~IsAnomaly(frames[3])
    /\ frames[3].index = localizations[1].end_frame + 1
    /\ localizations[2].start_frame = frames[4].index

(***************************************************************************)
(* Duplicate verification: hash collisions, threshold values of SSIM and   *)
(* of the inlier count, a baseline, index gaps                             *)
(***************************************************************************)
MaxFramesDup == 3

DomainDup ==
    [config |-> {DefaultConfig},
     fps |-> {10}, bitrate |-> {None}, codec |-> {"H264"},
     baseline |-> {NoBaseline, Baseline({"a"})},
     len |-> 0..MaxFramesDup, top |-> MaxFramesDup,
     hash |-> {"a", "b"}, cluster |-> {0},
     gray_ok |-> {TRUE}, ssim |-> {100}, flow |-> {0},
     dup_ssim |-> {79, 80, 95},
     sift |-> {SiftFail, SiftMatch(20, 3), SiftMatch(11, 10), SiftMatch(20, 15)},
     ela |-> {ElaFail}]

InitDup == InitWith(DomainDup)

SpecDup == InitDup /\ [][Next]_vars

(***************************************************************************)
(* Claims about the baseline comparison and the duplicate verification     *)
(***************************************************************************)
Tahap3Ended == pc \in {"tahap4", "done", "regenerated"} /\ Len(frames) >= 2

\* position p holds the first member F and q a later member L of a hash group
GroupPair(p, q) ==
    /\ p < q
    /\ frames[p].hash # NoHash
    /\ frames[q].hash = frames[p].hash
    /\ \A r \in 1..(p - 1) : frames[r].hash # frames[p].hash

\* the evidence of the comparison of L (at position q) with its group's F,
\* stated with the thresholds of the specification (equality included)
FullEvidence(q) ==
    LET sift_result == compare_sift_enhanced(env[q].sift)
    IN /\ env[q].dup_ssim # None
       /\ env[q].dup_ssim >= DUPLICATION_SSIM_CONFIRM
       /\ sift_result.success
       /\ sift_result.has_inliers
       /\ sift_result.inliers >= SIFT_MIN_MATCH_COUNT

IsDupReason(r) == \E i \in 0..(MaxFramesDup + 1) : r = R_DUP(i)

\* C3: with a baseline, a frame whose hash is absent from the baseline set
\* is anomaly_insertion with confidence SANGAT TINGGI from tahap 2 on, and
\* no later pass changes that type or confidence.
C3_BaselineInsertionIsFinal ==
    (pc # "tahap2" /\ baseline.given) =>
        \A p \in DOMAIN frames :
            frames[p].hash \notin baseline.hashes =>
                /\ frames[p].type = INSERTION
                /\ frames[p].evidence_obj.confidence = SANGAT_TINGGI

\* C4: when tahap 3 has ended, every later member L of a hash group whose
\* comparison with the first member F gave SSIM >= 0.80 and a successful
\* match with at least 10 inliers is anomaly_duplication, SANGAT TINGGI, and
\* carries source_frame = F's index with the four other duplicate metrics.
C4_ConfirmedPairIsDuplication ==
    Tahap3Ended =>
        \A p, q \in DOMAIN frames :
            (GroupPair(p, q) /\ FullEvidence(q)) =>
                /\ frames[q].type = DUPLICATION
                /\ frames[q].evidence_obj.confidence = SANGAT_TINGGI
                /\ {"source_frame", "ssim_to_source", "sift_inliers",
                    "sift_good_matches", "sift_inlier_ratio"}
                       \subseteq DOMAIN frames[q].evidence_obj.metrics
                /\ frames[q].evidence_obj.metrics["source_frame"] = frames[p].index

\* C5: when tahap 3 has ended, a later member of a hash group whose
\* comparison gave partial evidence (SSIM below the threshold, matcher
\* failure, or fewer inliers than the minimum) is not anomaly_duplication and
\* has no duplication reason and no source_frame metric; and a frame that
\* shares its hash with no other frame is not anomaly_duplication.
C5_NoDuplicationOnPartialEvidence ==
    Tahap3Ended =>
        /\ \A p, q \in DOMAIN frames :
              (GroupPair(p, q) /\ ~FullEvidence(q)) =>
                  /\ frames[q].type # DUPLICATION
                  /\ \A r \in Range(frames[q].evidence_obj.reasons) : ~IsDupReason(r)
                  /\ "source_frame" \notin DOMAIN frames[q].evidence_obj.metrics
        /\ \A q \in DOMAIN frames :
              (\A p \in DOMAIN frames \ {q} : frames[p].hash # frames[q].hash)
                  => frames[q].type # DUPLICATION

(***************************************************************************)
(* Confidence: frames with zero to four reasons, with and without the ELA  *)
(* reason and its escalation, next to duplication and insertion frames     *)
(***************************************************************************)
MaxFramesConf == 4

DomainConf ==
    [config |-> {DefaultConfig},
     fps |-> {10}, bitrate |-> {None}, codec |-> {"H264"},
     baseline |-> {NoBaseline, Baseline({"b"})},
     len |-> 0..MaxFramesConf, top |-> MaxFramesConf - 1,
     hash |-> {"a"}, cluster |-> {0, 1},
     gray_ok |-> {TRUE}, ssim |-> {60}, flow |-> {10, 100},
     dup_ssim |-> {79, 95}, sift |-> {SiftMatch(20, 15)},
     ela |-> {ElaFail, Ela(50, 3), Ela(50, 6)}]

InitConf == InitWith(DomainConf)

SpecConf == InitConf /\ [][Next]_vars

(***************************************************************************)
(* Claims about the confidence tier                                        *)
(***************************************************************************)
\* the frames whose tier follows the number of reasons
Counted == {p \in DOMAIN frames : frames[p].type \notin {DUPLICATION, INSERTION}}

\* the number of distinct reasons of the frame at position p (after tahap 3
\* the reasons are the sorted set of the tags)
NumReasons(p) == Cardinality(Range(frames[p].evidence_obj.reasons))

Tier(p) == conf_hierarchy(frames[p].evidence_obj.confidence)

AlwaysVeryHigh ==
    \A p \in DOMAIN frames \ Counted :
        frames[p].evidence_obj.confidence = SANGAT_TINGGI

\* C6 as stated: when tahap 3 has ended, a frame that is neither duplication
\* nor insertion and has no more distinct reasons than another such frame has
\* no higher tier than it; duplication and insertion frames are SANGAT TINGGI.
C6_TierNonDecreasingInReasons ==
    Tahap3Ended =>
        /\ \A a, b \in Counted : NumReasons(a) <= NumReasons(b) => Tier(a) <= Tier(b)
        /\ AlwaysVeryHigh

\* C6 amended: when tahap 3 has ended, a frame that is neither duplication
\* nor insertion and has strictly fewer distinct reasons than another such
\* frame has no higher tier than it (frames with equally many reasons may
\* differ in tier); duplication and insertion frames are SANGAT TINGGI.
C6_TierNonDecreasingInStrictlyMoreReasons ==
    Tahap3Ended =>
        /\ \A a, b \in Counted : NumReasons(a) < NumReasons(b) => Tier(a) <= Tier(b)
        /\ AlwaysVeryHigh

\* C6 witness: tahap 3 has ended on a run with a duplication frame and with
\* counted frames of two and of four reasons, the latter of a higher tier,
\* and with two counted frames of three reasons in different tiers.
C6_Witness ==
    /\ Tahap3Ended
    /\ \E d \in DOMAIN frames : frames[d].type = DUPLICATION
    /\ \E a, b \in Counted :
          NumReasons(a) = 2 /\ NumReasons(b) = 4 /\ Tier(a) < Tier(b)

\* a run where two counted frames of three reasons have different tiers
C6_EqualCountsDifferentTiers ==
    /\ Tahap3Ended
    /\ \E a, b \in Counted :
          NumReasons(a) = 3 /\ NumReasons(b) = 3 /\ Tier(a) < Tier(b)

(***************************************************************************)
(* FERM: one frame per second, so that events last long enough for the     *)
(* duration factors; empty, single-frame and anomaly-free lists included   *)
(***************************************************************************)
MaxFramesFerm == 4

DomainFerm ==
    [config |-> {DefaultConfig},
     fps |-> {1}, bitrate |-> {None}, codec |-> {"H264"},
     baseline |-> {Baseline({"a"})},
     len |-> 0..MaxFramesFerm, top |-> MaxFramesFerm - 1,
     hash |-> {"a", "b"}, cluster |-> {0, 1},
     gray_ok |-> {TRUE}, ssim |-> {100, 60}, flow |-> {0},
     dup_ssim |-> {79, 95}, sift |-> {SiftMatch(20, 15)},
     ela |-> {Ela(250, 6)}]

InitFerm == InitWith(DomainFerm)

SpecFerm == InitFerm /\ [][Next]_vars

(***************************************************************************)
(* Claims about the forensic evidence reliability matrix                   *)
(***************************************************************************)
FermDone == pc \in {"done", "regenerated"}

\* the risk constant of a tier, in hundredths
risk_const(tier) ==
    CASE tier = SANGAT_TINGGI -> 5
      [] tier = TINGGI -> 15
      [] tier = SEDANG -> 30
      [] tier = RENDAH -> 50
      [] OTHER -> 0

FermRisk == ferm.evidence_strength.false_positive_assessment.weighted_risk

FermReliability == ferm.evidence_strength.false_positive_assessment.reliability_score

\* the fraction q lies in [lo, hi] (hundredths)
FracIn(q, lo, hi) == q.den > 0 /\ lo * q.den <= q.num /\ q.num <= hi * q.den

\* C7: for a finished run with at least one anomalous frame, weighted_risk is
\* sum(count * risk_const) / sum(count) over the confidence_distribution the
\* same FERM reports, and reliability_score is 1 - weighted_risk.
C7_WeightedRiskMatchesReportedDistribution ==
    (FermDone /\ AnomalyCount(frames) >= 1) =>
        LET hist == ferm.evidence_strength.confidence_distribution
            total == SumMap(hist)
            weighted == SumMap([t \in DOMAIN hist |-> hist[t] * risk_const(t)])
        IN /\ total > 0
           /\ FermRisk.den > 0
           /\ FermRisk.num * total = weighted * FermRisk.den
           /\ FermReliability.den > 0
           /\ FermReliability.num * FermRisk.den
                 = (100 * FermRisk.den - FermRisk.num) * FermReliability.den

\* C8: in a finished run the weighted false-positive risk, the
\* reliability_score, every event's severity_score and every per-frame
\* technical severity lie in [0, 1].
C8_ScoresWithinUnitInterval ==
    FermDone =>
        /\ FracIn(FermRisk, 0, 100)
        /\ FracIn(FermReliability, 0, 100)
        /\ \A i \in DOMAIN localizations :
              0 <= localizations[i].severity_score
                 /\ localizations[i].severity_score <= 10000
        /\ LET sev == ferm.anomaly_characterization.technical_severity.by_frame
           IN \A p \in DOMAIN sev : 0 <= sev[p] /\ sev[p] <= SevUnit

\* C8 witness: a finished run with an event whose severity reached 1.0 (an
\* insertion event lasting more than two seconds) and a frame severity
\* computed from metrics.
C8_Witness ==
    /\ FermDone
    /\ \E i \in DOMAIN localizations :
          /\ localizations[i].event = INSERTION
          /\ localizations[i].duration > 2000
          /\ localizations[i].severity_score = 10000
    /\ \E p \in DOMAIN frames :
          /\ IsAnomaly(frames[p])
          /\ "ssim_drop" \in DOMAIN frames[p].evidence_obj.metrics
          /\ ferm.anomaly_characterization.technical_severity.by_frame[p] > 0

C10_NoAnomalyNoEventsNoError ==
    (pc \in {"tahap4", "done", "regenerated", "crashed_tahap4"}
        /\ AnomalyCount(frames) = 0) =>
        /\ pc # "crashed_tahap4"
        /\ locs = <<>>
        /\ event = <<>>
        /\ FermDone => /\ localizations = <<>>
                       /\ ferm.conclusion.primary_findings = <<>>
                       /\ ~FermRaised(ferm)

\* C10 witness: tahap 4 finished on the empty frame list.
C10_Witness ==
    /\ FermDone
    /\ Len(frames) = 0
    /\ localizations = <<>>
    /\ ferm.conclusion.primary_findings = <<>>

(***************************************************************************)
(* Claims about the accumulation of evidence                               *)
(***************************************************************************)
\* the reason tags and the metric keys of g include those of f
EvidenceIncluded(f, g) ==
    /\ Range(f.evidence_obj.reasons) \subseteq Range(g.evidence_obj.reasons)
    /\ DOMAIN f.evidence_obj.metrics \subseteq DOMAIN g.evidence_obj.metrics

EvidenceGrows(fr, gr) ==
    /\ DOMAIN fr = DOMAIN gr
    /\ \A p \in DOMAIN fr : EvidenceIncluded(fr[p], gr[p])

\* every pass of tahap 2, applied to the frames as they are, only adds
Tahap2PassesGrow ==
    LET s1 == TemporalFeatures(frames, env)
        s2 == BaselineCompare(s1, baseline)
    IN EvidenceGrows(frames, s1) /\ EvidenceGrows(s1, s2)

\* every pass of tahap 3, applied in the code's order, only adds; the last
\* two are the classification with ELA and the list-to-string conversion
Tahap3PassesGrow ==
    LET s1 == FlowPass(frames)
        s2 == SsimPass(s1)
        s3 == ScenePass(s2)
        s4 == DupPass(s3, env).fr
        s5 == [p \in DOMAIN s4 |-> ClassifyFrame(s4[p], env[p].ela)]
        s6 == [p \in DOMAIN s5 |-> JoinReasons(s5[p])]
    IN /\ EvidenceGrows(frames, s1)
       /\ EvidenceGrows(s1, s2)
       /\ EvidenceGrows(s2, s3)
       /\ EvidenceGrows(s3, s4)
       /\ EvidenceGrows(s4, s5)
       /\ EvidenceGrows(s5, s6)

\* C11: within one run of tahap 2, tahap 3 and tahap 4 the set of reason
\* tags and the set of metric keys of every frame only grow: from each step
\* to the next, and from each pass of tahap 2 and tahap 3 to the next,
\* the conversion of the reasons list to a string included.
C11_EvidenceOnlyGrows ==
    /\ [][EvidenceGrows(frames, frames')]_vars
    /\ [](pc = "tahap2" => Tahap2PassesGrow)
    /\ []((pc = "tahap3" /\ Len(frames) >= 2) => Tahap3PassesGrow)

\* C11 witness: tahap 3 has ended with a duplication frame that kept the
\* SSIM reason and metric it had before the duplicate verification, its
\* reasons now being the joined string of at least two tags.
C11_Witness ==
    /\ Tahap3Ended
    /\ \E p \in DOMAIN frames :
          /\ frames[p].type = DUPLICATION
          /\ frames[p].evidence_obj.reasons_is_str
          /\ "source_frame" \in DOMAIN frames[p].evidence_obj.metrics
          /\ "ssim_drop" \in DOMAIN frames[p].evidence_obj.metrics
          /\ R_SSIM_DROP \in Range(frames[p].evidence_obj.reasons)
          /\ Cardinality(Range(frames[p].evidence_obj.reasons)) >= 3

(***************************************************************************)
(* Claims about the classification and the compression analysis            *)
(***************************************************************************)
\* the rank of LOW for one reason, MEDIUM for two, HIGH for more
TierByCount(k) == IF k > 2 THEN 3 ELSE IF k = 2 THEN 2 ELSE 1

\* the compression analysis found more than 5 suspicious cells on the frame
FoundMoreThanFive(p) ==
    /\ "ela_suspicious_regions" \in DOMAIN frames[p].evidence_obj.metrics
    /\ frames[p].evidence_obj.metrics["ela_suspicious_regions"] > 5

\* the reasons the frame carried when the compression analysis looked at it
NumReasonsBeforeEla(p) == Cardinality(Range(frames[p].evidence_obj.reasons) \ {R_ELA})

\* C12 as stated: a frame that ends tahap 3 neither duplication nor insertion
\* and with at least one reason has the tier of its number of reasons (LOW
\* for 1, MEDIUM for 2, HIGH for more), one tier higher exactly when the
\* compression analysis found more than 5 suspicious cells on it.
C12_TierFromReasonCount ==
    Tahap3Ended =>
        \A p \in Counted :
            NumReasons(p) >= 1 =>
                Tier(p) = TierByCount(NumReasons(p))
                            + (IF FoundMoreThanFive(p) THEN 1 ELSE 0)

\* C12 amended: the number that decides is the number of reasons the frame
\* carried before the compression analysis, i.e. of its reasons other than
\* "Anomali Kompresi (ELA)".
C12_TierFromReasonCountBeforeEla ==
    Tahap3Ended =>
        \A p \in Counted :
            NumReasons(p) >= 1 =>
                Tier(p) = TierByCount(NumReasonsBeforeEla(p))
                            + (IF FoundMoreThanFive(p) THEN 1 ELSE 0)

\* C12 witness: tahap 3 has ended with a frame of one reason (LOW), a frame
\* of two reasons raised to HIGH by more than 5 suspicious cells, and a
\* frame of three reasons left HIGH by a compression reason of 5 cells or less.
C12_Witness ==
    /\ Tahap3Ended
    /\ \E a, b, c \in Counted :
          /\ NumReasons(a) = 1 /\ frames[a].evidence_obj.confidence = RENDAH
          /\ NumReasonsBeforeEla(b) = 2 /\ FoundMoreThanFive(b)
          /\ frames[b].evidence_obj.confidence = TINGGI
          /\ NumReasonsBeforeEla(c) = 3 /\ NumReasons(c) = 4 /\ ~FoundMoreThanFive(c)
          /\ frames[c].evidence_obj.confidence = TINGGI

\* the frame at position p carries something of the compression analysis
HasElaEvidence(p) ==
    \/ R_ELA \in Range(frames[p].evidence_obj.reasons)
    \/ frames[p].evidence_obj.ela_path
    \/ "ela_max_difference" \in DOMAIN frames[p].evidence_obj.metrics
    \/ "ela_suspicious_regions" \in DOMAIN frames[p].evidence_obj.metrics

\* C13: in every state of a run, a frame that carries the compression
\* reason, an ela_path or one of the two compression metrics has at least one
\* other reason, confidence SEDANG or higher, and is neither duplication nor
\* insertion; so no frame of confidence RENDAH or N/A and no duplication or
\* insertion frame carries any of them.
C13_ElaOnlyOnEligibleFrames ==
    \A p \in DOMAIN frames :
        HasElaEvidence(p) =>
            /\ NumReasonsBeforeEla(p) >= 1
            /\ frames[p].evidence_obj.confidence \in {SEDANG, TINGGI, SANGAT_TINGGI}
            /\ frames[p].type \notin {DUPLICATION, INSERTION}

\* C13 witness: tahap 3 has ended; the analyzer would have reported
\* suspicious cells on a duplication frame and on a frame of confidence
\* RENDAH, neither of which carries compression evidence, while another
\* frame does.
C13_Witness ==
    /\ Tahap3Ended
    /\ \E d, l, e \in DOMAIN frames :
          /\ frames[d].type = DUPLICATION
          /\ env[d].ela.ok /\ env[d].ela.suspicious_count > 5
          /\ ~HasElaEvidence(d)
          /\ frames[l].evidence_obj.confidence = RENDAH
          /\ env[l].ela.ok /\ env[l].ela.suspicious_count > 5
          /\ ~HasElaEvidence(l)
          /\ HasElaEvidence(e)

\* the confidence the classification gives frame f, taken as the duplicate
\* verification left it, before the compression analysis looks at it
ConfidenceBeforeEla(f) ==
    IF f.evidence_obj.reasons # <<>>
    THEN ConfidenceFor(IF f.type = ORIGINAL THEN DISCONTINUITY ELSE f.type,
                       Len(f.evidence_obj.reasons))
    ELSE f.evidence_obj.confidence

\* the suspicious-cell count the analysis reported on frame f, 0 if none
CellsFound(f) ==
    IF "ela_suspicious_regions" \in DOMAIN f.evidence_obj.metrics
    THEN f.evidence_obj.metrics["ela_suspicious_regions"] ELSE 0

\* C14: over tahap 3, a frame on which the compression analysis reported
\* more than 5 suspicious cells ends exactly one tier above the confidence it
\* had before the analysis (SEDANG to TINGGI, TINGGI to SANGAT TINGGI); with 5
\* cells or less the confidence is unchanged; a frame that was SEDANG before
\* the analysis does not end SANGAT TINGGI.
C14_EscalationIsOneStep ==
    [][(pc = "tahap3" /\ pc' = "tahap4" /\ Len(frames) >= 2) =>
          \A verified \in {Tahap3Verified(frames, env).fr} : \A p \in DOMAIN frames :
             LET before == ConfidenceBeforeEla(verified[p])
                 after == frames'[p].evidence_obj.confidence
             IN /\ CellsFound(frames'[p]) > 5 =>
                      /\ before \in {SEDANG, TINGGI}
                      /\ conf_hierarchy(after) = conf_hierarchy(before) + 1
                /\ CellsFound(frames'[p]) <= 5 => after = before
                /\ before = SEDANG => after # SANGAT_TINGGI]_vars

\* C14 witness: tahap 3 has ended with a frame of two reasons and a frame of
\* three reasons, more than 5 suspicious cells on both: the first is TINGGI,
\* the second SANGAT TINGGI.
C14_Witness ==
    /\ Tahap3Ended
    /\ \E b, c \in Counted :
          /\ NumReasonsBeforeEla(b) = 2 /\ FoundMoreThanFive(b)
          /\ frames[b].evidence_obj.confidence = TINGGI
          /\ NumReasonsBeforeEla(c) = 3 /\ FoundMoreThanFive(c)
          /\ frames[c].evidence_obj.confidence = SANGAT_TINGGI

(***************************************************************************)
(* Optical flow: up to 21 flow samples that are similar (10 + p mod k      *)
(* tenths), one of them replaced by a zero, an unreadable frame, a value   *)
(* far below, or the value 10 times the median of the others                *)
(***************************************************************************)
MaxFramesFlow == 22

\* the similar flow value of position p in pattern k
SimilarFlow(p, k) == 10 + (p % k)

\* ten times the median of the similar values at the positions 2..n but o
TenTimesMedian(n, k, o) ==
    LET idx == SelectIdx(n, (2..n) \ {o}, 1)
    IN IF idx = <<>> THEN 100
       ELSE 5 * Median2([i \in DOMAIN idx |-> SimilarFlow(idx[i], k)])

InitFlow ==
    /\ CONFIG = DefaultConfig
    /\ fps = 10
    /\ metadata = [bitrate |-> None, codec |-> "H264"]
    /\ baseline = NoBaseline
    /\ \E n \in 0..MaxFramesFlow :
         /\ frames = [p \in 1..n |-> FrameInfo(p - 1, "h" \o ToString(p), 0, fps)]
         /\ \E k \in 1..3 : \E o \in 0..n :
            \E special \in {"zero", "absent", "low", "high"} :
               env = [p \in 1..n |->
                        [gray_ok |-> ~(p = o /\ special = "absent"),
                         ssim |-> 100,
                         flow |-> IF p = 1 THEN 0
                                  ELSE IF p # o THEN SimilarFlow(p, k)
                                  ELSE CASE special = "zero" -> 0
                                         [] special = "low" -> 1
                                         [] special = "high" -> TenTimesMedian(n, k, o)
                                         [] OTHER -> SimilarFlow(p, k),
                         dup_ssim |-> None, sift |-> SiftFail, ela |-> ElaFail]]
    /\ pc = "tahap2"
    /\ confidence_distribution = EmptyMap
    /\ scan_pos = 1
    /\ event = <<>>
    /\ locs = <<>>
    /\ localizations = <<>>
    /\ summary = EmptyMap
    /\ ferm = EmptyMap
    /\ ferm_again = EmptyMap
    /\ pending = <<>>
    /\ clusters = <<>>

SpecFlow == InitFlow /\ [][Next]_vars

(***************************************************************************)
(* Claims about the optical-flow pass                                      *)
(***************************************************************************)
Tahap3Over == pc \in {"tahap4", "done", "regenerated"}

\* the positions whose flow sample is present and strictly greater than zero
Qualifying ==
    {p \in DOMAIN frames :
        frames[p].optical_flow_mag # None /\ frames[p].optical_flow_mag > 0}

\* the flow samples at the positions P, in frame order
FlowsAt(P) ==
    LET idx == SelectIdx(Len(frames), P, 1)
    IN [i \in DOMAIN idx |-> frames[idx[i]].optical_flow_mag]

\* |0.6745 (v - median) / MAD| exceeds the default threshold, median and MAD
\* taken over the samples s; a MAD of 0 is replaced by a small epsilon, which
\* puts every sample other than the median beyond the threshold
ExceedsThreshold(v, s) ==
    LET med2 == Median2(s)
        mad4 == Mad4(s)
    IN IF mad4 = 0 THEN 2 * v # med2
       ELSE 2 * 6745 * Abs(2 * v - med2) > OPTICAL_FLOW_Z_THRESH * 10000 * mad4

HasFlowReason(p) == R_FLOW \in Range(frames[p].evidence_obj.reasons)

\* the samples s lie within 20 percent of their median
Similar(s) ==
    \A i \in DOMAIN s : 5 * Abs(2 * s[i] - Median2(s)) <= Median2(s)

\* position p holds the one value 10 times the median of 20 similar values
OutlierAmongTwenty(p) ==
    /\ p \in Qualifying
    /\ Cardinality(Qualifying) = 21
    /\ Similar(FlowsAt(Qualifying \ {p}))
    /\ frames[p].optical_flow_mag = 5 * Median2(FlowsAt(Qualifying \ {p}))

\* C15: when tahap 3 is over, a frame carries "Lonjakan Aliran Optik" iff it
\* carries the metric optical_flow_z_score iff its flow is present, non-zero
\* and beyond the threshold on the modified z-score whose median and MAD are
\* those of the present, non-zero samples; so no frame of zero or absent
\* flow carries it, and the frame whose flow is 10 times the median of the
\* 20 similar values of the other frames carries it.
C15_FlowSpikeIffBeyondThreshold ==
    Tahap3Over =>
        \A p \in DOMAIN frames :
            /\ HasFlowReason(p)
                  <=> "optical_flow_z_score" \in DOMAIN frames[p].evidence_obj.metrics
            /\ HasFlowReason(p)
                  <=> (/\ p \in Qualifying
                       /\ ExceedsThreshold(frames[p].optical_flow_mag, FlowsAt(Qualifying)))
            /\ p \notin Qualifying => ~HasFlowReason(p)
            /\ OutlierAmongTwenty(p) => HasFlowReason(p)

\* C15 witness: tahap 3 is over on 22 frames whose 21 non-zero flows are 20
\* similar values that are not all equal and one value 10 times their
\* median; the outlier frame, and no other, carries the reason.
C15_Witness ==
    /\ Tahap3Over
    /\ Len(frames) = 22
    /\ \E p \in DOMAIN frames :
          /\ OutlierAmongTwenty(p)
          /\ Mad4(FlowsAt(Qualifying)) > 0
          /\ HasFlowReason(p)
          /\ "optical_flow_z_score" \in DOMAIN frames[p].evidence_obj.metrics
          /\ \A q \in DOMAIN frames \ {p} : ~HasFlowReason(q)

\* the passes of tahap 3 other than the optical-flow pass, in the code's
\* order: SSIM, scene change, duplicate verification
RemainingPasses(fr, e) == DupPass(ScenePass(SsimPass(fr)), e)

\* C16: when fewer than 2 flow samples are present and non-zero, tahap 3
\* gives no frame the flow reason or the z-score metric, raises no error of
\* its own, and leaves the frames and the confidence distribution exactly as
\* the remaining passes (SSIM, scene change, duplicate verification,
\* classification with the compression analysis) make them.
C16_FlowPassSkippedOthersStillRun ==
    [][(pc = "tahap3" /\ Cardinality(Qualifying) < 2) =>
          \A st \in {RemainingPasses(frames, env)} :
             IF st.crashed THEN pc' = "crashed"
             ELSE /\ pc' = "tahap4"
                  /\ frames' = Tahap3Final(st.fr, env)
                  /\ confidence_distribution' = ConfidenceLevels(frames')
                  /\ \A p \in DOMAIN frames' :
                        /\ R_FLOW \notin Range(frames'[p].evidence_obj.reasons)
                        /\ "optical_flow_z_score"
                              \notin DOMAIN frames'[p].evidence_obj.metrics]_vars

\* C17: when tahap 3 has ended, every frame after the first whose SSIM and
\* whose predecessor's SSIM are present carries "Penurunan Drastis SSIM" and
\* the metric ssim_drop if the SSIM fell by more than the drop threshold, and
\* carries "SSIM Sangat Rendah" if its SSIM is below 0.7, each rule on its
\* own, so that a frame meeting both conditions carries both reasons.
C17_SsimRulesIndependent ==
    Tahap3Ended =>
        \A p \in 2..Len(frames) :
            (frames[p].ssim_to_prev # None /\ frames[p - 1].ssim_to_prev # None) =>
                /\ frames[p - 1].ssim_to_prev - frames[p].ssim_to_prev
                        > SSIM_DISCONTINUITY_DROP
                      => /\ R_SSIM_DROP \in Range(frames[p].evidence_obj.reasons)
                         /\ "ssim_drop" \in DOMAIN frames[p].evidence_obj.metrics
                /\ frames[p].ssim_to_prev < 70
                      => R_SSIM_LOW \in Range(frames[p].evidence_obj.reasons)

(***************************************************************************)
(* Configuration: the defaults, and CONFIG with one threshold set to zero  *)
(* or below before the stages run                                          *)
(***************************************************************************)
MaxFramesConfig == 3

DomainConfig ==
    [config |-> {DefaultConfig,
                 [DefaultConfig EXCEPT !.SSIM_DISCONTINUITY_DROP = 0],
                 [DefaultConfig EXCEPT !.OPTICAL_FLOW_Z_THRESH = 0],
                 [DefaultConfig EXCEPT !.DUPLICATION_SSIM_CONFIRM = -10],
                 [DefaultConfig EXCEPT !.SIFT_MIN_MATCH_COUNT = 0]},
     fps |-> {10}, bitrate |-> {None}, codec |-> {"H264"},
     baseline |-> {NoBaseline},
     len |-> 0..MaxFramesConfig, top |-> MaxFramesConfig - 1,
     hash |-> {"a", "b"}, cluster |-> {0},
     gray_ok |-> {TRUE}, ssim |-> {100, 90}, flow |-> {10, 20},
     dup_ssim |-> {50, 95}, sift |-> {SiftMatch(5, 5)}, ela |-> {ElaFail}]

InitConfig == InitWith(DomainConfig)

SpecConfig == InitConfig /\ [][Next]_vars

(***************************************************************************)
(* Claims about the configuration                                          *)
(***************************************************************************)
InvalidConfig ==
    \/ CONFIG.SSIM_DISCONTINUITY_DROP <= 0
    \/ CONFIG.OPTICAL_FLOW_Z_THRESH <= 0
    \/ CONFIG.DUPLICATION_SSIM_CONFIRM <= 0
    \/ CONFIG.SIFT_MIN_MATCH_COUNT <= 0

\* C18: under a configuration with a threshold of zero or below no frame is
\* ever reclassified or given evidence: every frame stays original, without
\* reasons, metrics or a confidence.
C18_InvalidConfigRejected ==
    InvalidConfig =>
        \A p \in DOMAIN frames :
            /\ frames[p].type = ORIGINAL
            /\ frames[p].evidence_obj.reasons = <<>>
            /\ DOMAIN frames[p].evidence_obj.metrics = {}
            /\ frames[p].evidence_obj.confidence = N_A

(***************************************************************************)
(* Risk: runs that differ in bitrate, codec, number of frames and share of *)
(* flagged frames                                                          *)
(***************************************************************************)
MaxFramesRisk == 3

DomainRisk ==
    [config |-> {DefaultConfig},
     fps |-> {10}, bitrate |-> {None, 400, 2000}, codec |-> {"H.264", "VP9"},
     baseline |-> {Baseline({"a"})},
     len |-> 0..MaxFramesRisk, top |-> MaxFramesRisk - 1,
     hash |-> {"a", "b"}, cluster |-> {0},
     gray_ok |-> {TRUE}, ssim |-> {100, 60}, flow |-> {0},
     dup_ssim |-> {79}, sift |-> {SiftFail}, ela |-> {ElaFail}]

InitRisk == InitWith(DomainRisk)

SpecRisk == InitRisk /\ [][Next]_vars

\* run_tahap_2_analisis_temporal followed by run_tahap_3_sintesis_bukti on
\* the frame list fr0: the frames and result.confidence_distribution after
RunStages2And3(fr0, e, b) ==
    LET t2 == BaselineCompare(TemporalFeatures(fr0, e), b)
    IN IF Len(t2) < 2
       THEN [frames |-> t2, confidence_distribution |-> EmptyMap, crashed |-> FALSE]
       ELSE LET st == Tahap3Verified(t2, e)
            IN IF st.crashed
               THEN [frames |-> st.fr, confidence_distribution |-> EmptyMap,
                     crashed |-> TRUE]
               ELSE [frames |-> Tahap3Final(st.fr, e),
                     confidence_distribution |->
                         ConfidenceLevels(Tahap3Final(st.fr, e)),
                     crashed |-> FALSE]

(***************************************************************************)
(* Claims about the risk-factor flags                                      *)
(***************************************************************************)
\* the inputs of the runs this run is compared with: one or two frames with
\* consecutive indices, hashes in or out of the baseline {a}, any bitrate
\* and codec of DomainRisk
OtherRuns ==
    {[frames |-> [p \in 1..n |-> FrameInfo(p - 1, h[p], 0, 10)],
      env |-> [p \in 1..n |-> [gray_ok |-> TRUE, ssim |-> 100, flow |-> 0,
                                dup_ssim |-> 79, sift |-> SiftFail, ela |-> ElaFail]],
      baseline |-> Baseline({"a"}),
      metadata |-> md] :
        n \in 1..2, h \in [1..2 -> {"a", "b"}],
        md \in [bitrate : {None, 400}, codec : {"H.264", "VP9"}]}

\* the false_positive_assessment of the FERM of the run with input r
OtherAssessment(r) ==
    LET out == RunStages2And3(r.frames, r.env, r.baseline)
    IN [histogram |-> ConfidenceLevels(out.frames),
        assessment |->
            evidence_strength(out.frames, out.confidence_distribution,
                              r.metadata).false_positive_assessment]

SameFraction(a, b) == a.den > 0 /\ b.den > 0 /\ a.num * b.den = b.num * a.den

\* C19: a finished run and any other run whose anomalous frames have the
\* same confidence-tier histogram have equal weighted_risk and equal
\* reliability_score, whatever the two runs' bitrate, codec, number of
\* frames and share of flagged frames.
C19_RiskDependsOnHistogramOnly ==
    FermDone =>
        \A r \in OtherRuns :
            \A o \in {OtherAssessment(r)} :
                o.histogram = ConfidenceLevels(frames) =>
                    /\ SameFraction(o.assessment.weighted_risk, FermRisk)
                    /\ SameFraction(o.assessment.reliability_score, FermReliability)


(***************************************************************************)
(* Claims about the inputs of the FERM                                     *)
(***************************************************************************)
\* what the claim reads of a frame: type, reasons (with their
\* representation, list or joined string), metrics and confidence
Verdict(f) ==
    [type |-> f.type,
     reasons |-> f.evidence_obj.reasons,
     reasons_is_str |-> f.evidence_obj.reasons_is_str,
     metrics |-> f.evidence_obj.metrics,
     confidence |-> f.evidence_obj.confidence]

Verdicts(fr) == [p \in DOMAIN fr |-> Verdict(fr[p])]

\* a step in which generate_forensic_evidence_matrix returned
FermBuiltInTahap4 == pc = "tahap4" /\ pc' = "done"

FermBuiltAgain == pc = "done" /\ pc' = "regenerated"

\* C20: generate_forensic_evidence_matrix leaves every frame's type,
\* reasons, metrics and confidence and result.confidence_distribution as
\* they were, both when tahap 4 calls it and when it is called on the
\* finished result; called on the finished result it leaves
\* result.localizations as they were too.
C20_FermReadOnly ==
    [][/\ (FermBuiltInTahap4 \/ FermBuiltAgain) =>
              /\ Verdicts(frames') = Verdicts(frames)
              /\ confidence_distribution' = confidence_distribution
       /\ FermBuiltAgain => localizations' = localizations]_vars

C20_Witness ==
    /\ pc = "regenerated"
    /\ Len(localizations) > 0
    /\ confidence_distribution # EmptyMap
    /\ \E p \in DOMAIN frames :
          /\ IsAnomaly(frames[p])
          /\ frames[p].evidence_obj.reasons_is_str
          /\ Len(frames[p].evidence_obj.reasons) >= 2
          /\ frames[p].evidence_obj.metrics # EmptyMap


(***************************************************************************)
(* Claims about the classification at the end of tahap 3                   *)
(***************************************************************************)
NoReasons(f) == f.evidence_obj.reasons = <<>>

\* C21: when run_tahap_3_sintesis_bukti has ended on at least 2 frames, a
\* frame is "original" exactly when it has no reason, and then its
\* confidence is "N/A"; a frame with a reason that is neither duplication
\* nor insertion is anomaly_discontinuity; every anomalous frame has a
\* confidence among RENDAH, SEDANG, TINGGI, SANGAT TINGGI.
C21_ClassificationMatchesReasons ==
    Tahap3Ended =>
        \A p \in DOMAIN frames :
            LET f == frames[p]
            IN /\ (f.type = ORIGINAL) <=> NoReasons(f)
               /\ NoReasons(f) => f.evidence_obj.confidence = N_A
               /\ (~NoReasons(f) /\ f.type \notin {DUPLICATION, INSERTION})
                      => f.type = DISCONTINUITY
               /\ IsAnomaly(f) =>
                      f.evidence_obj.confidence \in {RENDAH, SEDANG, TINGGI, SANGAT_TINGGI}

C21_Witness ==
    /\ Tahap3Ended
    /\ \E p, q, r \in DOMAIN frames :
          /\ frames[p].type = ORIGINAL /\ NoReasons(frames[p])
          /\ frames[q].type = DISCONTINUITY
          /\ frames[q].evidence_obj.confidence = RENDAH
          /\ frames[r].type \in {DUPLICATION, INSERTION}


(***************************************************************************)
(* Claims about the reliability verdict                                    *)
(***************************************************************************)
FactorsWithImpact(m, impact) ==
    Cardinality({i \in DOMAIN m.conclusion.reliability_factors :
                    m.conclusion.reliability_factors[i].impact = impact})

\* the table of the claim, row by row
VerdictByTable(positives, negatives) ==
    CASE positives >= 3 /\ negatives <= 1 -> "Reliabilitas Tinggi"
      [] ~(positives >= 3 /\ negatives <= 1)
         /\ positives >= 2 /\ negatives <= 2 -> "Reliabilitas Sedang"
      [] ~(positives >= 3 /\ negatives <= 1)
         /\ ~(positives >= 2 /\ negatives <= 2)
         /\ positives >= negatives -> "Reliabilitas Terbatas"
      [] OTHER -> "Reliabilitas Rendah"

AdditionalMethodsAdvised(m) ==
    "metode forensik tambahan" \in Range(m.conclusion.recommended_actions)

\* C22: the reliability verdict of the FERM is the entry of the table for
\* the number of positive and of negative reliability factors, and the
\* action "apply additional forensic methods" is recommended exactly when
\* the verdict is Limited (Terbatas) or Low (Rendah).
C22_VerdictFromFactorCounts ==
    FermDone =>
        /\ ferm.conclusion.reliability_assessment =
              VerdictByTable(FactorsWithImpact(ferm, "Positif"),
                             FactorsWithImpact(ferm, "Negatif"))
        /\ AdditionalMethodsAdvised(ferm) <=>
              ferm.conclusion.reliability_assessment
                  \in {"Reliabilitas Terbatas", "Reliabilitas Rendah"}

\* a verdict of the third row with as many positive as negative factors
C22_Witness ==
    /\ FermDone
    /\ FactorsWithImpact(ferm, "Positif") = FactorsWithImpact(ferm, "Negatif")
    /\ FactorsWithImpact(ferm, "Positif") > 0
    /\ ferm.conclusion.reliability_assessment = "Reliabilitas Terbatas"
    /\ AdditionalMethodsAdvised(ferm)


(***************************************************************************)
(* Clusters: videos whose inserted frames come in groups of two and of one, *)
(* separated by frames of the baseline                                      *)
(***************************************************************************)
\* the numbers of groups of two inserted frames and of single inserted frames
PairGroups == {0, 1, 3, 27}

SingleGroups == {0, 1, 4, 36}

\* the numbers of baseline frames between two groups
Separations == {2, 3}

\* position p holds an inserted frame: P groups of two, then S single ones,
\* each followed by g frames of the baseline
InsertedAt(p, P, g) ==
    IF p <= (2 + g) * P THEN (p - 1) % (2 + g) < 2
    ELSE (p - (2 + g) * P - 1) % (1 + g) = 0

InitCluster ==
    /\ CONFIG = DefaultConfig
    /\ fps = 10
    /\ metadata = [bitrate |-> None, codec |-> "H264"]
    /\ \E P \in PairGroups : \E S \in SingleGroups : \E g \in Separations :
         LET n == (2 + g) * P + (1 + g) * S
         IN /\ frames = [p \in 1..n |->
                           FrameInfo(p - 1,
                                     (IF InsertedAt(p, P, g) THEN "x" ELSE "o")
                                        \o ToString(p), 0, fps)]
            /\ baseline = Baseline({"o" \o ToString(p) :
                                      p \in {q \in 1..n : ~InsertedAt(q, P, g)}})
            /\ env = [p \in 1..n |->
                        [gray_ok |-> TRUE, ssim |-> 100, flow |-> 0,
                         dup_ssim |-> None, sift |-> SiftFail, ela |-> ElaFail]]
    /\ pc = "tahap2"
    /\ confidence_distribution = EmptyMap
    /\ scan_pos = 1
    /\ event = <<>>
    /\ locs = <<>>
    /\ localizations = <<>>
    /\ summary = EmptyMap
    /\ ferm = EmptyMap
    /\ ferm_again = EmptyMap
    /\ pending = <<>>
    /\ clusters = <<>>

SpecCluster == InitCluster /\ [][Next]_vars

(***************************************************************************)
(* Claims about the temporal clusters                                      *)
(***************************************************************************)
\* the indices of the anomalous frames, in the order of the frame list
AnomalyIndices ==
    LET pos == SelectIdx(Len(frames), {p \in DOMAIN frames : IsAnomaly(frames[p])}, 1)
    IN [i \in DOMAIN pos |-> frames[pos[i]].index]

\* the positions in AnomalyIndices at which a cluster starts
ClusterStarts(a) == {i \in DOMAIN a : i = 1 \/ a[i] - a[i - 1] > 3}

FermTemporal == ferm.anomaly_characterization.temporal_distribution

\* the pattern of the claim, with exact arithmetic
PatternAsClaimed(n_clusters, n_anomalies) ==
    IF n_anomalies = 0 THEN "tidak ada"
    ELSE IF 10 * n_clusters > 7 * n_anomalies THEN "terisolasi"
    ELSE IF n_clusters > 1 THEN "terkelompok"
    ELSE "sistematis"

\* C23: the FERM reports as many clusters as there are maximal groups of
\* anomalous indices with steps of at most 3, the largest cluster is the
\* largest such group, and the distribution pattern is "terisolasi"
\* (isolated) when the cluster count is more than 70% of the anomaly count,
\* otherwise "terkelompok" (clustered) for more than one cluster, otherwise
\* "sistematis" (systematic) for one cluster, and "tidak ada" (none) without
\* anomalies.
C23_ClustersAndPattern ==
    FermDone =>
        \A a \in {AnomalyIndices} :
            LET starts == ClusterStarts(a)
                size(i) == Cardinality({j \in DOMAIN a :
                              /\ j >= i
                              /\ \A s \in starts : s > i => j < s})
            IN /\ FermTemporal.total_anomalies = Len(a)
               /\ FermTemporal.cluster_count = Cardinality(starts)
               /\ \A i \in starts : size(i) <= FermTemporal.largest_cluster
               /\ starts # {} => \E i \in starts : size(i) = FermTemporal.largest_cluster
               /\ FermTemporal.distribution_pattern =
                     PatternAsClaimed(Cardinality(starts), Len(a))


(***************************************************************************)
(* Claims about the per-frame severity                                     *)
(***************************************************************************)
SeverityMetrics ==
    {"ssim_drop", "optical_flow_z_score", "sift_inlier_ratio", "ela_max_difference"}

SeverityMetricsPresent(f) == SeverityMetrics \cap DOMAIN f.evidence_obj.metrics

FermSeverityOf(p) == ferm.anomaly_characterization.technical_severity.by_frame[p]

\* C24: the severity of an anomalous frame with metrics is the sum of its
\* normalized severity metrics divided by the number of severity metrics
\* present on it, at most 1; the severity of an anomalous frame without
\* metrics is the constant of its confidence tier.
C24_SeverityAveragesSeverityMetrics ==
    FermDone =>
        \A p \in DOMAIN frames :
            IsAnomaly(frames[p]) =>
                LET m == frames[p].evidence_obj.metrics
                    k == Cardinality(SeverityMetricsPresent(frames[p]))
                IN /\ (DOMAIN m # {} /\ k > 0) =>
                          FermSeverityOf(p) =
                              Min(SevUnit, (SeveritySum(m) * 2520) \div k)
                   /\ DOMAIN m = {} =>
                          FermSeverityOf(p) =
                              confidence_severity(frames[p].evidence_obj.confidence)


(***************************************************************************)
(* Claims about the multi-method confirmation                              *)
(***************************************************************************)
Anomalous == {p \in DOMAIN frames : IsAnomaly(frames[p])}

MethodCount(p) == Cardinality(FrameMethods(frames[p]))

FermMultiMethod == ferm.evidence_strength.multi_method_confirmation

\* C25: average_methods_per_anomaly is the total number of methods of the
\* anomalous frames divided by the number of anomalous frames, and
\* percentage_confirmed_by_multiple is the share of anomalous frames with
\* more than one method, an anomalous frame without any method counting as
\* an anomaly with 0 methods.
C25_MethodsAveragedOverAllAnomalies ==
    (FermDone /\ Anomalous # {}) =>
        /\ SameFraction(FermMultiMethod.average_methods_per_anomaly,
                        Frac(SumMap([p \in Anomalous |-> MethodCount(p)]),
                             Cardinality(Anomalous)))
        /\ SameFraction(FermMultiMethod.percentage_confirmed_by_multiple,
                        Frac(Cardinality({p \in Anomalous : MethodCount(p) > 1}),
                             Cardinality(Anomalous)))


(***************************************************************************)
(* Claims about the fields of an event                                     *)
(***************************************************************************)
\* the positions of the frames of event e
Members(e) ==
    {p \in DOMAIN frames :
        e.start_frame <= frames[p].index /\ frames[p].index <= e.end_frame}

\* the last member of e that has an explanation under key k
LastWith(e, k) ==
    CHOOSE p \in Members(e) :
        /\ k \in DOMAIN frames[p].evidence_obj.explanations
        /\ \A q \in Members(e) :
              k \in DOMAIN frames[q].evidence_obj.explanations =>
                  frames[q].index <= frames[p].index

EventSummarizesMembers(e) ==
    /\ Members(e) # {}
    /\ \E p \in Members(e) : frames[p].evidence_obj.confidence = e.confidence
    /\ \A p \in Members(e) :
          conf_hierarchy(frames[p].evidence_obj.confidence) <= conf_hierarchy(e.confidence)
    /\ e.frame_count = e.end_frame - e.start_frame + 1
    /\ \A p \in Members(e) :
          frames[p].index = e.end_frame => e.end_ts = frames[p].timestamp
    /\ DOMAIN e.explanations =
          UNION {DOMAIN frames[p].evidence_obj.explanations : p \in Members(e)}
    /\ \A k \in DOMAIN e.explanations :
          e.explanations[k] = frames[LastWith(e, k)].evidence_obj.explanations[k]

\* C26: every event has the highest confidence of its member frames, a
\* frame_count of end_frame - start_frame + 1, the timestamp of its last
\* member as end_ts, and as explanations the merge of the members'
\* explanations in frame order, the later member winning on a shared key;
\* the scan changes no frame.
C26_EventSummarizesMembers ==
    /\ [](\A i \in DOMAIN HeldEvents : EventSummarizesMembers(HeldEvents[i]))
    /\ [][pc = "tahap4" => frames' = frames]_vars

\* an event whose first member has a higher confidence than its last one
\* and shares an explanation key with it
C26_Witness ==
    /\ Scanned
    /\ \E i \in DOMAIN localizations :
          LET e == localizations[i]
          IN \E p, q \in Members(e) :
                /\ frames[p].index = e.start_frame
                /\ frames[q].index = e.end_frame
                /\ conf_hierarchy(frames[p].evidence_obj.confidence)
                      > conf_hierarchy(frames[q].evidence_obj.confidence)
                /\ (DOMAIN frames[p].evidence_obj.explanations)
                      \cap (DOMAIN frames[q].evidence_obj.explanations) # {}
                /\ (DOMAIN frames[p].evidence_obj.explanations)
                      \ (DOMAIN frames[q].evidence_obj.explanations) # {}


(***************************************************************************)
(* Event severity: videos of up to 12 frames at 1, 2 and 4 frames per      *)
(* second that are all inserted, all duplicates of the first frame, all    *)
(* discontinuities, or inserted at every other position                    *)
(***************************************************************************)
MaxFramesSeverity == 12

Rates == {1, 2, 4}

Kinds == {"insertion", "alternating", "duplication", "discontinuity"}

InitSeverity ==
    /\ CONFIG = DefaultConfig
    /\ metadata = [bitrate |-> None, codec |-> "H264"]
    /\ fps \in Rates
    /\ \E n \in 0..MaxFramesSeverity : \E kind \in Kinds :
       \E k \in (IF kind = "discontinuity" THEN {1, 2} ELSE {1}) :
       \E ela \in (IF kind = "discontinuity" THEN {ElaFail, Ela(250, 6)} ELSE {ElaFail}) :
         /\ baseline = IF kind \in {"insertion", "alternating"}
                       THEN Baseline({"a"}) ELSE NoBaseline
         /\ frames = [p \in 1..n |->
                FrameInfo(p - 1,
                          CASE kind = "insertion" -> "x" \o ToString(p)
                            [] kind = "alternating" ->
                                  IF p % 2 = 1 THEN "x" \o ToString(p) ELSE "a"
                            [] kind = "duplication" -> "a"
                            [] OTHER -> "h" \o ToString(p),
                          p % k, fps)]
         /\ env = [p \in 1..n |->
                [gray_ok |-> TRUE,
                 ssim |-> IF kind = "discontinuity" /\ p > 1 THEN 60 ELSE 100,
                 flow |-> 0,
                 dup_ssim |-> IF p > 1 THEN 95 ELSE None,
                 sift |-> IF p > 1 THEN SiftMatch(20, 15) ELSE SiftFail,
                 ela |-> IF p > 1 THEN ela ELSE ElaFail]]
    /\ pc = "tahap2"
    /\ confidence_distribution = EmptyMap
    /\ scan_pos = 1
    /\ event = <<>>
    /\ locs = <<>>
    /\ localizations = <<>>
    /\ summary = EmptyMap
    /\ ferm = EmptyMap
    /\ ferm_again = EmptyMap
    /\ pending = <<>>
    /\ clusters = <<>>

SpecSeverity == InitSeverity /\ [][Next]_vars

(***************************************************************************)
(* Claims about the event severity                                         *)
(***************************************************************************)
\* the tables of the claim, in tenths
BaseAsClaimed(type) ==
    CASE type = "anomaly_insertion" -> 8
      [] type = "anomaly_duplication" -> 6
      [] type = "anomaly_discontinuity" -> 5
      [] OTHER -> 3

MultiplierAsClaimed(confidence) ==
    CASE confidence = "SANGAT TINGGI" -> 12
      [] confidence = "TINGGI" -> 10
      [] confidence = "SEDANG" -> 8
      [] confidence = "RENDAH" -> 6
      [] OTHER -> 5

\* duration in milliseconds
DurationBonusAsClaimed(duration) ==
    IF duration > 5000 THEN 12 ELSE IF duration > 2000 THEN 11 ELSE 10

CountBonusAsClaimed(frame_count) == IF frame_count > 10 THEN 11 ELSE 10

Enhanced == pc \in {"done", "regenerated", "crashed_tahap4"}

\* C27: the severity_score of every event is the product of the base of its
\* type, the multiplier of its confidence, the duration bonus and the count
\* bonus, at most 1 (10000 ten-thousandths), where the duration is
\* end_ts - start_ts and the confidence is the highest of its members.
C27_EventSeverityFormula ==
    Enhanced =>
        \A i \in DOMAIN localizations :
            LET e == localizations[i]
            IN /\ e.duration = e.end_ts - e.start_ts
               /\ \A p \in Members(e) :
                     conf_hierarchy(frames[p].evidence_obj.confidence)
                        <= conf_hierarchy(e.confidence)
               /\ e.severity_score =
                     Min(10000, BaseAsClaimed(e.event)
                                * MultiplierAsClaimed(e.confidence)
                                * DurationBonusAsClaimed(e.end_ts - e.start_ts)
                                * CountBonusAsClaimed(e.frame_count))

\* a duplication event of more than 10 frames and more than 5 s, whose
\* product 0.6 x 1.2 x 1.2 x 1.1 is below 1
C27_Witness ==
    /\ Enhanced
    /\ \E i \in DOMAIN localizations :
          /\ localizations[i].frame_count > 10
          /\ localizations[i].duration > 5000
          /\ localizations[i].severity_score = 9504

(***************************************************************************)
(* TAHAP 1 in one process: the suspect video, then the baseline video      *)
(***************************************************************************)
\* scene_variance is kept in thousandths; the code compares it with 0.15
LOW_SCENE_VARIANCE == 150

ADAPTED_KMEANS_CLUSTERS == 5

\* CONFIG after the scene-variance step of run_tahap_1_pra_pemrosesan
ConfigAfterVariance(config, video) ==
    IF video.histograms > 0 /\ video.scene_variance < LOW_SCENE_VARIANCE
    THEN [config EXCEPT !.KMEANS_CLUSTERS = ADAPTED_KMEANS_CLUSTERS]
    ELSE config

\* min(CONFIG["KMEANS_CLUSTERS"], len(histograms)); None when there is no
\* histogram and the clustering block is skipped
actual_n_clusters(config, video) ==
    IF video.histograms = 0 THEN None
    ELSE Min(config.KMEANS_CLUSTERS, video.histograms)

\* the histogram and K-Means part of run_tahap_1_pra_pemrosesan for the video
\* at the head of the queue; only the suspect video's frames are kept as a
\* list here, and they get their labels when at least two clusters are fitted
run_tahap_1_pra_pemrosesan ==
    /\ pc = "tahap1"
    /\ pending # <<>>
    /\ LET video == Head(pending)
           config == ConfigAfterVariance(CONFIG, video)
           k == actual_n_clusters(config, video)
       IN /\ CONFIG' = config
          /\ clusters' = Append(clusters, [video |-> video, actual_n_clusters |-> k])
          /\ frames' = IF video.name = "suspect" /\ k # None /\ k >= 2
                       THEN [p \in DOMAIN frames |->
                               [frames[p] EXCEPT !.color_cluster = video.labels[p]]]
                       ELSE frames
    /\ pending' = Tail(pending)
    /\ pc' = IF Tail(pending) = <<>> THEN "tahap2" ELSE "tahap1"
    /\ UNCHANGED <<env, baseline, metadata, fps, confidence_distribution, scan_pos,
                   event, locs, localizations, summary, ferm, ferm_again>>

NextProcess ==
    \/ run_tahap_1_pra_pemrosesan
    \/ Next

MaxFramesProcess == 4

MaxHistograms == 6

SceneVariances == {100, 150, 200}

Video(name, histograms, scene_variance, labels) ==
    [name |-> name, histograms |-> histograms,
     scene_variance |-> IF histograms = 0 THEN None ELSE scene_variance,
     labels |-> labels]

\* __main__ before the first call of run_tahap_1_pra_pemrosesan: the frames
\* of the suspect video are extracted and hashed, their labels are still to
\* be fitted; a baseline video is queued after the suspect when one is given
InitProcess ==
    /\ CONFIG = DefaultConfig
    /\ fps = 10
    /\ metadata = [bitrate |-> None, codec |-> "H264"]
    /\ baseline \in {NoBaseline, Baseline({"a"})}
    /\ \E n \in 0..MaxFramesProcess :
         /\ \E h \in [1..n -> {"a", "b"}] :
               frames = [p \in 1..n |-> FrameInfo(p - 1, h[p], None, fps)]
         /\ env = [p \in 1..n |->
                     [gray_ok |-> TRUE, ssim |-> 100, flow |-> 0,
                      dup_ssim |-> IF p = 1 THEN None ELSE 79,
                      sift |-> SiftFail, ela |-> ElaFail]]
         /\ \E v \in SceneVariances, l \in [1..n -> {0, 1}] :
            \E bn \in 0..MaxHistograms, bv \in SceneVariances :
               pending = <<Video("suspect", n, v, l)>>
                         \o (IF baseline.given
                             THEN <<Video("baseline", bn, bv, <<>>)>>
                             ELSE <<>>)
    /\ pc = "tahap1"
    /\ confidence_distribution = EmptyMap
    /\ scan_pos = 1
    /\ event = <<>>
    /\ locs = <<>>
    /\ localizations = <<>>
    /\ summary = EmptyMap
    /\ ferm = EmptyMap
    /\ ferm_again = EmptyMap
    /\ clusters = <<>>

SpecProcess == InitProcess /\ [][NextProcess]_vars

\* the cluster count of a video that is the first one of its process
CountAlone(video) ==
    actual_n_clusters(ConfigAfterVariance(DefaultConfig, video), video)

\* C28: the cluster count of every video passed to tahap 1 is the count the
\* video gets when it is analysed alone with the configured KMEANS_CLUSTERS,
\* whatever was analysed before it in the process, and CONFIG keeps the
\* contents it had before the run
C28_ClusterCountPerVideoAndConfigKept ==
    /\ CONFIG = DefaultConfig
    /\ \A i \in DOMAIN clusters :
          clusters[i].actual_n_clusters = CountAlone(clusters[i].video)

(***************************************************************************)
(* Claims about the events as a partition of the anomalous frames          *)
(***************************************************************************)
\* the positions the localization scan has passed
PassedByScan ==
    IF pc = "tahap4" THEN {p \in DOMAIN frames : p < scan_pos}
    ELSE IF pc \in {"done", "regenerated", "crashed_tahap4"} THEN DOMAIN frames
    ELSE {}

\* the events whose index range holds the frame at position p
EventsOf(p) == {i \in DOMAIN HeldEvents : p \in Members(HeldEvents[i])}

\* C29: during and after the localization scan every anomalous frame the
\* scan has passed lies in the index range of exactly one event and every
\* other frame in none; the events are in strictly increasing start_frame
\* order and their index ranges are disjoint; the frame counts of the events
\* add up to the number of anomalous frames passed, and after the stage
\* total_anomalous_frames equals summary.total_anomaly
C29_EventsPartitionAnomalousFrames ==
    /\ \A p \in DOMAIN frames :
          Cardinality(EventsOf(p)) =
              IF p \in PassedByScan /\ IsAnomaly(frames[p]) THEN 1 ELSE 0
    /\ \A i \in DOMAIN HeldEvents :
          /\ HeldEvents[i].start_frame <= HeldEvents[i].end_frame
          /\ i < Len(HeldEvents) =>
                /\ HeldEvents[i].start_frame < HeldEvents[i + 1].start_frame
                /\ HeldEvents[i].end_frame < HeldEvents[i + 1].start_frame
    /\ SumSeq([i \in DOMAIN HeldEvents |-> HeldEvents[i].frame_count])
          = Cardinality({p \in PassedByScan : IsAnomaly(frames[p])})
    /\ pc \in {"done", "regenerated", "crashed_tahap4"} =>
          /\ summary.total_anomalous_frames = summary.total_anomaly
          /\ summary.total_anomaly = Cardinality(Anomalous)

\* a finished run with two events, the first of two frames, a frame that is
\* no anomaly and an index gap in the frame list
C29_Witness ==
    /\ pc = "done"
    /\ Len(localizations) = 2
    /\ localizations[1].frame_count = 2
    /\ \E p \in DOMAIN frames : ~IsAnomaly(frames[p])
    /\ \E p \in DOMAIN frames : p > 1 /\ frames[p].index > frames[p - 1].index + 1

(***************************************************************************)
(* Claims about the alternative-explanation factor                         *)
(***************************************************************************)
AlternativeExplanations == ferm.causality_analysis.alternative_explanations

MostLikelyLikelihood ==
    AlternativeExplanations.all_alternatives[
        AlternativeExplanations.most_likely_alternative]

OtherFactors == 1..4

\* C30: generate_alternative_explanations names a most likely alternative,
\* whose likelihood is Sedang-Tinggi or Tinggi; the conclusion has exactly
\* five reliability factors, the fifth being the alternative-explanation
\* factor with an impact other than Positif; so at most four factors are
\* positive, and a verdict of Reliabilitas Tinggi has at least three of the
\* four other factors positive
C30_AlternativeFactorNeverPositive ==
    FermDone =>
        LET factors == ferm.conclusion.reliability_factors
        IN /\ AlternativeExplanations.most_likely_alternative # Unset
           /\ AlternativeExplanations.most_likely_alternative \in Range(AlternativeKeys)
           /\ MostLikelyLikelihood \in {"Sedang-Tinggi", "Tinggi"}
           /\ Len(factors) = 5
           /\ factors[5].factor = "Penjelasan Alternatif"
           /\ factors[5].impact # "Positif"
           /\ FactorsWithImpact(ferm, "Positif") <= 4
           /\ ferm.conclusion.reliability_assessment = "Reliabilitas Tinggi" =>
                 Cardinality({i \in OtherFactors : factors[i].impact = "Positif"}) >= 3

\* a verdict of Reliabilitas Tinggi reached with three positive factors, none
\* of them the alternative-explanation factor
C30_Witness ==
    /\ FermDone
    /\ ferm.conclusion.reliability_assessment = "Reliabilitas Tinggi"
    /\ FactorsWithImpact(ferm, "Positif") = 3
    /\ MostLikelyLikelihood \in {"Sedang-Tinggi", "Tinggi"}
    /\ ferm.conclusion.reliability_factors[5].impact # "Positif"

====
